---- MODULE Spec2Model ----
(***************************************************************************)
(* A model of the "pain" scripting language: the tokenizer                 *)
(* (src/tokenizer.py), and the tree-walking evaluator with its chained     *)
(* environments (src/expression.py).                                       *)
(*                                                                         *)
(* Python objects are records tagged by the field k (the class name).      *)
(* Environment objects live in the sequence heap; a reference to an        *)
(* Environment is its index in heap and 0 stands for None.                 *)
(*                                                                         *)
(* Expression.evaluate is recursive in Python.  Here the Python call stack *)
(* is the variable stack: one frame per evaluate call in progress, holding *)
(* the node, its env argument, the place the method has reached (pc) and   *)
(* its local variables.  A step runs the method of the top frame from that *)
(* place up to its next evaluate call (a frame is pushed) or to its return *)
(* (the frame is popped and the value is left in ret).                     *)
(***************************************************************************)
EXTENDS Integers, Sequences, FiniteSets, TLC

VARIABLES heap,    \* the Environment objects, by reference
          last,    \* the call made from outside: its arguments, its result
          stack,   \* the evaluate calls in progress, the innermost last
          ret,     \* the value the call that just returned has returned
          log,     \* history: the calls that returned, in order
          stdout,  \* what the host's print has written
          tok,     \* the Tokenizer under test
          ref      \* a second Tokenizer on the same script, never peeked

vars == <<heap, last, stack, ret, log, stdout, tok, ref>>

RECURSIVE Environment_get_value(_, _, _)
RECURSIVE Environment_get_dict_of(_, _, _)
RECURSIVE GCD(_, _)
RECURSIVE Scan(_, _, _)
RECURSIVE ScanTo(_, _, _)
RECURSIVE int(_)
RECURSIVE Join(_)
RECURSIVE NestProgram(_, _)

----------------------------------------------------------------------------
(* Bounds of the model *)

\* the largest number of Environment objects of the environment specification
MaxFrames == 3

----------------------------------------------------------------------------
(* Values *)

None == [k |-> "NoneType"]
IntV(n) == [k |-> "int", n |-> n]
BoolV(b) == [k |-> "bool", b |-> b]

\* a float, held as the reduced fraction num/den with den > 0
Abs(n) == IF n < 0 THEN -n ELSE n
GCD(a, b) == IF b = 0 THEN a ELSE GCD(b, a % b)
FloatV(num, den) ==
    LET s == IF den < 0 THEN -1 ELSE 1
        g == GCD(Abs(num), Abs(den))
    IN  [k |-> "float", num |-> (s * num) \div g, den |-> (s * den) \div g]

\* int, bool (a subclass of int) and float are the numbers of the language
IsNumber(v) == v.k \in {"int", "bool", "float"}
IsIntegral(v) == v.k \in {"int", "bool"}
NumOf(v) == IF v.k = "int" THEN v.n
            ELSE IF v.k = "bool" THEN (IF v.b THEN 1 ELSE 0)
            ELSE v.num
DenOf(v) == IF v.k = "float" THEN v.den ELSE 1

\* bool(v)
Truthy(v) ==
    IF v.k = "bool" THEN v.b
    ELSE IF IsNumber(v) THEN NumOf(v) # 0
    ELSE v.k # "NoneType"

\* no call has returned yet
NoReturn == [k |-> "NoReturn"]

\* a Python exception leaving the interpreter (no except clause caught it)
Raise(exc) == [k |-> "Raise", exc |-> exc]

IsError(v) == v.k = "Error"
IsRetVal(v) == v.k = "RetVal"

----------------------------------------------------------------------------
(* class Error *)

\* Error.append(message, origin): the traceback with one more entry
Error_append(e, message, origin) ==
    IF origin < 0
    THEN [e EXCEPT !.traceback = Append(@, message)]
    ELSE IF message # ""
         THEN [e EXCEPT !.traceback =
                  Append(@, "Line " \o ToString(origin) \o ": " \o message)]
         ELSE [e EXCEPT !.traceback = Append(@, "Line " \o ToString(origin))]

\* Error(message, origin)
Error(message, origin) ==
    LET e == [k |-> "Error", traceback |-> <<>>]
    IN  IF message # "" THEN Error_append(e, message, origin) ELSE e

----------------------------------------------------------------------------
(* class Environment *)

\* Environment(local_vars, parent_env): the heap with the new object at its end
Environment(local_vars, parent_env, h) ==
    Append(h, [local_vars |-> local_vars, parent_env |-> parent_env])

NotDefined(name) == "Name '" \o name \o "' is not defined."

\* a bug get_value could have: the outermost binding wins
Environment_get_value_outermost(env, name, h) ==
    LET up == IF h[env].parent_env # 0
              THEN Environment_get_value(h[env].parent_env, name, h)
              ELSE Error(NotDefined(name), -1)
    IN  IF ~IsError(up) THEN up
        ELSE IF name \in DOMAIN h[env].local_vars
             THEN h[env].local_vars[name]
             ELSE up

Environment_get_value(env, name, h) ==
    IF name \in DOMAIN h[env].local_vars
    THEN h[env].local_vars[name]
    ELSE IF h[env].parent_env # 0
         THEN Environment_get_value(h[env].parent_env, name, h)
         ELSE Error(NotDefined(name), -1)

\* the dictionary is returned by reference: the frame that owns it
Environment_get_dict_of(env, name, h) ==
    IF name \in DOMAIN h[env].local_vars
    THEN [k |-> "dict", of |-> env]
    ELSE IF h[env].parent_env # 0
         THEN Environment_get_dict_of(h[env].parent_env, name, h)
         ELSE Error(NotDefined(name), -1)

----------------------------------------------------------------------------
(* class Name *)

Name(name, origin) == [k |-> "Name", name |-> name, origin |-> origin]

\* a bug assign could have: always bind in the starting frame
Name_assign_local(self, value, env, h) ==
    [h EXCEPT ![env].local_vars = (self.name :> value) @@ @]

\* Name.assign(value, env): the heap after tgt_dict[self.name] = value
Name_assign(self, value, env, h) ==
    LET found == Environment_get_dict_of(env, self.name, h)
        tgt_dict == IF IsError(found) THEN env ELSE found.of
    IN  [h EXCEPT ![tgt_dict].local_vars = (self.name :> value) @@ @]

\* Name.evaluate(env)
Name_evaluate(self, env, h) ==
    LET val == Environment_get_value(env, self.name, h)
    IN  IF IsError(val) THEN Error_append(val, "", self.origin) ELSE val

----------------------------------------------------------------------------
(* class Operators: each operator function takes the evaluated operands and *)
(* the environment, and returns its value and the heap it leaves.          *)

Ret(val, h) == [val |-> val, heap |-> h]

\* str(te) of the TypeError of a binary arithmetic operator
Unsupported(sym, a, b) ==
    "unsupported operand type(s) for " \o sym \o ": '" \o a.k \o "' and '"
        \o b.k \o "'"

\* str(te) of the TypeError of an ordering comparison
NotSupported(sym, a, b) ==
    "'" \o sym \o "' not supported between instances of '" \o a.k
        \o "' and '" \o b.k \o "'"

\* the number num/den as the operands' types make it: int when both
\* operands are integral, float otherwise
Number(a, b, num, den) ==
    IF IsIntegral(a) /\ IsIntegral(b) THEN IntV(num \div den)
    ELSE FloatV(num, den)

Operators_add(args, env, h) ==
    IF Len(args) # 2
    THEN Ret(Error("ADD operator requires exactly 2 operands.", -1), h)
    ELSE LET a == args[1]  b == args[2]
         IN  IF IsNumber(a) /\ IsNumber(b)
             THEN Ret(Number(a, b, NumOf(a) * DenOf(b) + NumOf(b) * DenOf(a),
                             DenOf(a) * DenOf(b)), h)
             ELSE Ret(Error(Unsupported("+", a, b), -1), h)

Operators_sub(args, env, h) ==
    IF Len(args) # 2
    THEN Ret(Error("SUB operator requires exactly 2 operands.", -1), h)
    ELSE LET a == args[1]  b == args[2]
         IN  IF IsNumber(a) /\ IsNumber(b)
             THEN Ret(Number(a, b, NumOf(a) * DenOf(b) - NumOf(b) * DenOf(a),
                             DenOf(a) * DenOf(b)), h)
             ELSE Ret(Error(Unsupported("-", a, b), -1), h)

Operators_mul(args, env, h) ==
    IF Len(args) # 2
    THEN Ret(Error("MUL operator requires exactly 2 operands.", -1), h)
    ELSE LET a == args[1]  b == args[2]
         IN  IF IsNumber(a) /\ IsNumber(b)
             THEN Ret(Number(a, b, NumOf(a) * NumOf(b), DenOf(a) * DenOf(b)), h)
             ELSE Ret(Error(Unsupported("*", a, b), -1), h)

\* str(zde) of the ZeroDivisionError of % and of /
ModuloByZero(a, b) ==
    IF IsIntegral(a) /\ IsIntegral(b) THEN "integer modulo by zero"
    ELSE "float modulo"
DivisionByZero(a, b) ==
    IF IsIntegral(a) /\ IsIntegral(b) THEN "division by zero"
    ELSE "float division by zero"

\* a bug mod could have: no except clause for ZeroDivisionError
Operators_mod_uncaught(args, env, h) ==
    IF Len(args) # 2
    THEN Ret(Error("MOD operator requires exactly 2 operands.", -1), h)
    ELSE LET a == args[1]  b == args[2]
         IN  IF ~(IsNumber(a) /\ IsNumber(b))
             THEN Ret(Error(Unsupported("%", a, b), -1), h)
             ELSE IF NumOf(b) = 0
             THEN Ret(Raise("ZeroDivisionError"), h)
             ELSE LET q == (NumOf(a) * DenOf(b)) \div (DenOf(a) * NumOf(b))
                  IN  Ret(Number(a, b,
                            NumOf(a) * DenOf(b) - NumOf(b) * DenOf(a) * q,
                            DenOf(a) * DenOf(b)), h)

\* args[0] % args[1]: the remainder has the sign of the divisor
Operators_mod(args, env, h) ==
    IF Len(args) # 2
    THEN Ret(Error("MOD operator requires exactly 2 operands.", -1), h)
    ELSE LET a == args[1]  b == args[2]
         IN  IF ~(IsNumber(a) /\ IsNumber(b))
             THEN Ret(Error(Unsupported("%", a, b), -1), h)
             ELSE IF NumOf(b) = 0
             THEN Ret(Error(ModuloByZero(a, b), -1), h)
             ELSE LET q == (NumOf(a) * DenOf(b)) \div (DenOf(a) * NumOf(b))
                  IN  Ret(Number(a, b,
                            NumOf(a) * DenOf(b) - NumOf(b) * DenOf(a) * q,
                            DenOf(a) * DenOf(b)), h)

\* a bug div could have: floor division
Operators_div_floor(args, env, h) ==
    IF Len(args) # 2
    THEN Ret(Error("DIV operator requires exactly 2 operands.", -1), h)
    ELSE LET a == args[1]  b == args[2]
         IN  IF ~(IsNumber(a) /\ IsNumber(b))
             THEN Ret(Error(Unsupported("/", a, b), -1), h)
             ELSE IF NumOf(b) = 0
             THEN Ret(Error(DivisionByZero(a, b), -1), h)
             ELSE Ret(IntV((NumOf(a) * DenOf(b)) \div (DenOf(a) * NumOf(b))), h)

\* args[0] / args[1]: true division, a float whatever the operands
Operators_div(args, env, h) ==
    IF Len(args) # 2
    THEN Ret(Error("DIV operator requires exactly 2 operands.", -1), h)
    ELSE LET a == args[1]  b == args[2]
         IN  IF ~(IsNumber(a) /\ IsNumber(b))
             THEN Ret(Error(Unsupported("/", a, b), -1), h)
             ELSE IF NumOf(b) = 0
             THEN Ret(Error(DivisionByZero(a, b), -1), h)
             ELSE Ret(FloatV(NumOf(a) * DenOf(b), DenOf(a) * NumOf(b)), h)

\* args[0] == args[1]: numbers by value, every other object by itself
Operators_eql(args, env, h) ==
    IF Len(args) # 2
    THEN Ret(Error("EQL operator requires exactly 2 operands.", -1), h)
    ELSE LET a == args[1]  b == args[2]
         IN  IF IsNumber(a) /\ IsNumber(b)
             THEN Ret(BoolV(NumOf(a) * DenOf(b) = NumOf(b) * DenOf(a)), h)
             ELSE Ret(BoolV(a = b), h)

Operators_grt(args, env, h) ==
    IF Len(args) # 2
    THEN Ret(Error("GRT operator requires exactly 2 operands.", -1), h)
    ELSE LET a == args[1]  b == args[2]
         IN  IF IsNumber(a) /\ IsNumber(b)
             THEN Ret(BoolV(NumOf(a) * DenOf(b) > NumOf(b) * DenOf(a)), h)
             ELSE Ret(Error(NotSupported(">", a, b), -1), h)

Operators_geq(args, env, h) ==
    IF Len(args) # 2
    THEN Ret(Error("GEQ operator requires exactly 2 operands.", -1), h)
    ELSE LET a == args[1]  b == args[2]
         IN  IF IsNumber(a) /\ IsNumber(b)
             THEN Ret(BoolV(NumOf(a) * DenOf(b) >= NumOf(b) * DenOf(a)), h)
             ELSE Ret(Error(NotSupported(">=", a, b), -1), h)

Operators_les(args, env, h) ==
    IF Len(args) # 2
    THEN Ret(Error("LES operator requires exactly 2 operands.", -1), h)
    ELSE LET a == args[1]  b == args[2]
         IN  IF IsNumber(a) /\ IsNumber(b)
             THEN Ret(BoolV(NumOf(a) * DenOf(b) < NumOf(b) * DenOf(a)), h)
             ELSE Ret(Error(NotSupported("<", a, b), -1), h)

Operators_leq(args, env, h) ==
    IF Len(args) # 2
    THEN Ret(Error("LEQ operator requires exactly 2 operands.", -1), h)
    ELSE LET a == args[1]  b == args[2]
         IN  IF IsNumber(a) /\ IsNumber(b)
             THEN Ret(BoolV(NumOf(a) * DenOf(b) <= NumOf(b) * DenOf(a)), h)
             ELSE Ret(Error(NotSupported("<=", a, b), -1), h)

\* args[0].assign(args[1], env); only a Name has the attribute assign
\* a bug Operators.ass could have: every left operand is taken, and nothing
\* is bound
Operators_ass_unchecked(args, env, h) ==
    IF Len(args) # 2
    THEN Ret(Error("ASSIGN operator requires exactly 2 operands.", -1), h)
    ELSE Ret(None, h)

Operators_ass(args, env, h) ==
    IF Len(args) # 2
    THEN Ret(Error("ASSIGN operator requires exactly 2 operands.", -1), h)
    ELSE IF args[1].k # "Name"
    THEN Ret(Error("ASSIGN operator requires assignable left operand.", -1), h)
    ELSE Ret(None, Name_assign(args[1], args[2], env, h))

RetVal(value) == [k |-> "RetVal", value |-> value, origin |-> -1]

Operators_ret(args, env, h) ==
    IF Len(args) # 1
    THEN Ret(Error("RETURN operator requires exactly 1 operand.", -1), h)
    ELSE Ret(RetVal(args[1]), h)

Operators_not(args, env, h) ==
    IF Len(args) # 1
    THEN Ret(Error("NOT operator requires exactly 1 operand.", -1), h)
    ELSE Ret(BoolV(~Truthy(args[1])), h)

\* the operand count is compared with 1, not 2
Operators_and(args, env, h) ==
    IF Len(args) # 1
    THEN Ret(Error("AND operator requires exactly 2 operands.", -1), h)
    ELSE IF ~Truthy(args[1]) THEN Ret(BoolV(FALSE), h)
    ELSE Ret(Raise("IndexError"), h)

\* the operand count is compared with 1, not 2
Operators_or(args, env, h) ==
    IF Len(args) # 1
    THEN Ret(Error("OR operator requires exactly 2 operands.", -1), h)
    ELSE IF Truthy(args[1]) THEN Ret(BoolV(TRUE), h)
    ELSE Ret(Raise("IndexError"), h)

\* OPERATORS: operator -> (has left operand, has right operand)
OPERATORS ==
    [o \in {"ADD", "SUBTRACT", "MULTIPLY", "DIVIDE", "MOD", "EQUAL",
            "GREATER_THAN", "GREATER_EQUAL", "LESS_THAN", "LESS_EQUAL",
            "ASSIGN", "AND", "OR"} |-> <<TRUE, TRUE>>]
    @@ [o \in {"RETURN", "NOT"} |-> <<FALSE, TRUE>>]

\* OPERATORS[operator][2](args, env)
Operators_call(operator, args, env, h) ==
    CASE operator = "ADD" -> Operators_add(args, env, h)
      [] operator = "SUBTRACT" -> Operators_sub(args, env, h)
      [] operator = "MULTIPLY" -> Operators_mul(args, env, h)
      [] operator = "DIVIDE" -> Operators_div(args, env, h)
      [] operator = "MOD" -> Operators_mod(args, env, h)
      [] operator = "EQUAL" -> Operators_eql(args, env, h)
      [] operator = "GREATER_THAN" -> Operators_grt(args, env, h)
      [] operator = "GREATER_EQUAL" -> Operators_geq(args, env, h)
      [] operator = "LESS_THAN" -> Operators_les(args, env, h)
      [] operator = "LESS_EQUAL" -> Operators_leq(args, env, h)
      [] operator = "ASSIGN" -> Operators_ass(args, env, h)
      [] operator = "RETURN" -> Operators_ret(args, env, h)
      [] operator = "NOT" -> Operators_not(args, env, h)
      [] operator = "AND" -> Operators_and(args, env, h)
      [] operator = "OR" -> Operators_or(args, env, h)

----------------------------------------------------------------------------
(* The environment specification: Environment objects are constructed, read *)
(* and assigned through Environment.get_value, Name.evaluate, Name.assign.  *)

Names == {"x", "y"}
\* the values a dictionary may hold for a name (two for x, so that an
\* assignment is seen to change it; one for y, the bystander)
EnvVals(name) == IF name = "x" THEN {IntV(1), IntV(2)} ELSE {IntV(1)}
LocalVars ==
    UNION {{f \in [D -> {IntV(1), IntV(2)}] : \A n \in D : f[n] \in EnvVals(n)} :
              D \in SUBSET Names}
EmptyDict == [n \in {} |-> None]

\* no Tokenizer is in use
NoTokenizer == [script |-> <<>>, index |-> -1, shift |-> 0, next_token |-> None]

InitEnv ==
    /\ \E lv \in LocalVars : heap = Environment(lv, 0, <<>>)
    /\ last = [op |-> "Environment"]
    /\ stack = <<>>
    /\ ret = NoReturn
    /\ log = <<>>
    /\ stdout = <<>>
    /\ tok = NoTokenizer
    /\ ref = NoTokenizer

\* Environment({}, parent)
NewEnvironment ==
    /\ Len(heap) < MaxFrames
    /\ \E parent \in 1..Len(heap) :
          heap' = Environment(EmptyDict, parent, heap)
    /\ last' = [op |-> "Environment"]
    /\ UNCHANGED <<stack, ret, log, stdout, tok, ref>>

\* env.get_value(name) and Name(name, origin).evaluate(env)
GetValue ==
    /\ \E env \in 1..Len(heap), name \in Names, origin \in {-1, 7} :
          last' = [op |-> "get_value", env |-> env, name |-> name,
                   origin |-> origin,
                   result |-> Environment_get_value(env, name, heap),
                   evaluated |-> Name_evaluate(Name(name, origin), env, heap)]
    /\ UNCHANGED <<heap, stack, ret, log, stdout, tok, ref>>

\* Name(name).assign(value, env)
NameAssign ==
    /\ \E env \in 1..Len(heap), name \in Names : \E value \in EnvVals(name) :
          /\ heap' = Name_assign(Name(name, -1), value, env, heap)
          /\ last' = [op |-> "assign", env |-> env, name |-> name,
                      value |-> value]
    /\ UNCHANGED <<stack, ret, log, stdout, tok, ref>>

NextEnv == NewEnvironment \/ GetValue \/ NameAssign

SpecEnv == InitEnv /\ [][NextEnv]_vars

----------------------------------------------------------------------------
(* Claims about the environment specification *)

RECURSIVE ChainOf(_, _)
\* the frames of a scope chain, the starting frame first, the root last
ChainOf(env, h) ==
    IF h[env].parent_env = 0 THEN <<env>>
    ELSE <<env>> \o ChainOf(h[env].parent_env, h)

\* the positions of the chain whose frame binds the name
Binders(env, name, h) ==
    {i \in 1..Len(ChainOf(env, h)) :
        name \in DOMAIN h[ChainOf(env, h)[i]].local_vars}

\* the frame nearest to env that binds the name (when one does)
Nearest(env, name, h) ==
    ChainOf(env, h)[CHOOSE i \in Binders(env, name, h) :
                       \A j \in Binders(env, name, h) : i <= j]

LookupIsNearest(c, h) ==
    IF Binders(c.env, c.name, h) # {}
    THEN /\ c.result = h[Nearest(c.env, c.name, h)].local_vars[c.name]
         /\ c.evaluated = c.result
    ELSE /\ c.result = [k |-> "Error", traceback |-> <<NotDefined(c.name)>>]
         /\ IsError(c.evaluated)
         /\ c.evaluated.traceback[1] = NotDefined(c.name)

\* C1: get_value and Name.evaluate return the value bound in the nearest
\* frame of the chain that binds the name; they return the Error value
\* "Name '<name>' is not defined." exactly when no frame of the chain binds
\* it; and the call changes no frame.
C1_LookupNearestFrame ==
    [][last'.op = "get_value" =>
          /\ heap' = heap
          /\ LookupIsNearest(last', heap')
          /\ IsError(last'.result) <=> Binders(last'.env, last'.name, heap) = {}
          /\ IsError(last'.evaluated) <=> IsError(last'.result)]_vars

\* C1 witness: a lookup that starts in a frame without the name, below two
\* frames that bind it to different values
C1_Witness ==
    /\ last.op = "get_value"
    /\ Len(ChainOf(last.env, heap)) = 3
    /\ Binders(last.env, last.name, heap) = {2, 3}
    /\ heap[ChainOf(last.env, heap)[2]].local_vars[last.name]
         # heap[ChainOf(last.env, heap)[3]].local_vars[last.name]
    /\ last.result = heap[ChainOf(last.env, heap)[2]].local_vars[last.name]

SameBinding(f, n, h1, h2) ==
    /\ n \in DOMAIN h2[f].local_vars <=> n \in DOMAIN h1[f].local_vars
    /\ n \in DOMAIN h1[f].local_vars => h2[f].local_vars[n] = h1[f].local_vars[n]

AssignEffect(c, h1, h2) ==
    LET tgt == IF Binders(c.env, c.name, h1) # {}
               THEN Nearest(c.env, c.name, h1) ELSE c.env
    IN  /\ Len(h2) = Len(h1)
        /\ c.name \in DOMAIN h2[tgt].local_vars
        /\ h2[tgt].local_vars[c.name] = c.value
        /\ \A f \in 1..Len(h1) :
              /\ h2[f].parent_env = h1[f].parent_env
              /\ DOMAIN h2[f].local_vars \subseteq Names
              /\ \A n \in Names :
                    (f # tgt \/ n # c.name) => SameBinding(f, n, h1, h2)
        /\ \A e \in 1..Len(h2) :
              (Binders(e, c.name, h2) # {} /\ Nearest(e, c.name, h2) = tgt)
                  => Environment_get_value(e, c.name, h2) = c.value

\* C2: Name.assign changes the binding of the name in the nearest frame of
\* the chain that already binds it, or binds it in the starting frame when
\* none does; every other binding of every frame is unchanged; and a lookup
\* from any scope that reaches the changed frame first returns the new value.
C2_AssignMutatesOwner ==
    [][last'.op = "assign" => AssignEffect(last', heap, heap')]_vars

\* C2 witness: an assignment from a frame that does not bind the name has
\* changed the frame above it, and a frame further up still binds the name
\* to another value
C2_Witness ==
    /\ last.op = "assign"
    /\ Len(ChainOf(last.env, heap)) = 3
    /\ Binders(last.env, last.name, heap) = {2, 3}
    /\ heap[ChainOf(last.env, heap)[2]].local_vars[last.name] = last.value
    /\ heap[ChainOf(last.env, heap)[3]].local_vars[last.name] # last.value

----------------------------------------------------------------------------
(* Expressions *)

Constant(value, origin) == [k |-> "Constant", value |-> value, origin |-> origin]
Operation(l_operand, operator, r_operand, origin) ==
    [k |-> "Operation", l_operand |-> l_operand, operator |-> operator,
     r_operand |-> r_operand, origin |-> origin]
\* Block.__init__ does not pass origin on: a Block's origin is always -1
Block(steps, origin) == [k |-> "Block", steps |-> steps, origin |-> -1]
IfBlock(steps, origin) == [k |-> "IfBlock", steps |-> steps, origin |-> origin]
WhileLoop(cond, code, origin) ==
    [k |-> "WhileLoop", cond |-> cond, code |-> code, origin |-> origin]
ForLoop(first, cond, on_rpt, code, origin) ==
    [k |-> "ForLoop", first |-> first, cond |-> cond, on_rpt |-> on_rpt,
     code |-> code, origin |-> origin]
Function(params, code, origin) ==
    [k |-> "Function", params |-> params, code |-> code, origin |-> origin]
Builtin(func, args, origin) ==
    [k |-> "Builtin", func |-> func, args |-> args, origin |-> origin]
Invocation(func, args, origin) ==
    [k |-> "Invocation", func |-> func, args |-> args, origin |-> origin]

----------------------------------------------------------------------------
(* The call stack.  m is the machine: [heap, stack, ret, log, stdout].     *)

M == [heap |-> heap, stack |-> stack, ret |-> ret, log |-> log,
      stdout |-> stdout]

\* the frame of self.evaluate(env) as the call begins; i, args, func and sub
\* are the method's local variables (the loop index, the values collected,
\* the callee, the Environment the method created)
Frame(self, env) ==
    [self |-> self, env |-> env, pc |-> "start", i |-> 1, args |-> <<>>,
     func |-> None, sub |-> 0]

Top(m) == m.stack[Len(m.stack)]
SetTop(m, f) == [m EXCEPT !.stack[Len(m.stack)] = f]
At(m, pc) == SetTop(m, [Top(m) EXCEPT !.pc = pc])

\* node.evaluate(env), called by the top frame, which waits at pc
Call(m, pc, node, env) ==
    [At(m, pc) EXCEPT !.stack = Append(@, Frame(node, env)), !.ret = NoReturn]

\* the top frame returns val; the return of a node that has a line number
\* is entered in the log
Return(m, val) ==
    [m EXCEPT !.stack = SubSeq(@, 1, Len(@) - 1),
              !.ret = val,
              !.log = IF Top(m).self.origin >= 0
                      THEN Append(@, [k |-> Top(m).self.k,
                                      origin |-> Top(m).self.origin,
                                      val |-> val])
                      ELSE @]

\* a bug evaluate could have: an Error is passed on as it is
Appended_nothing(val, origin) == val

\* the value, with the origin appended when it is an Error
Appended(val, origin) ==
    IF IsError(val) THEN Error_append(val, "", origin) ELSE val

\* Environment(local_vars, env), kept in the local variable sub
Alloc(m, local_vars, env) ==
    SetTop([m EXCEPT !.heap = Environment(local_vars, env, @)],
           [Top(m) EXCEPT !.sub = Len(m.heap) + 1])

\* the last reference to the Environment the top frame created is dropped:
\* it was the newest object, and it is reclaimed
Free(m) ==
    SetTop([m EXCEPT !.heap = SubSeq(@, 1, Top(m).sub - 1)],
           [Top(m) EXCEPT !.sub = 0])

----------------------------------------------------------------------------
(* Constant.evaluate, RetVal.evaluate, Name.evaluate *)

Constant_step(m) == Return(m, Top(m).self.value)

Name_step(m) == Return(m, Name_evaluate(Top(m).self, Top(m).env, m.heap))

----------------------------------------------------------------------------
(* Operation.evaluate *)

\* result = operator[2](args, env) and the return
Operation_apply(m) ==
    LET f == Top(m)
        result == Operators_call(f.self.operator, f.args, f.env, m.heap)
    IN  Return([m EXCEPT !.heap = result.heap],
               Appended(result.val, f.self.origin))

\* "if operator[1]: # RIGHT OPERAND"
Operation_right(m) ==
    LET f == Top(m)
    IN  IF OPERATORS[f.self.operator][2]
        THEN IF f.self.r_operand = None
             THEN Return(m, Error("Missing right operand.", f.self.origin))
             ELSE Call(m, "right", f.self.r_operand, f.env)
        ELSE Operation_apply(m)

\* a bug Operation.evaluate could have: the right operand is evaluated
\* after an Error of the left one
Operation_step_on(m) ==
    LET f == Top(m)
        value == m.ret
        got == SetTop(m, [f EXCEPT !.args = Append(@, value)])
    IN  CASE f.pc = "start" ->
               IF f.self.operator \notin DOMAIN OPERATORS
               THEN Return(m, Error("Operator 'TokenType." \o f.self.operator
                                       \o "' is invalid.", f.self.origin))
               ELSE IF OPERATORS[f.self.operator][1]
               THEN IF f.self.l_operand = None
                    THEN Return(m, Error("Missing left operand.", f.self.origin))
                    ELSE Call(m, "left", f.self.l_operand, f.env)
               ELSE Operation_right(m)
          [] f.pc = "left" -> Operation_right(got)
          [] f.pc = "right" ->
               IF IsError(value) THEN Return(m, Appended(value, f.self.origin))
               ELSE Operation_apply(got)

Operation_step(m) ==
    LET f == Top(m)
        value == m.ret
        got == SetTop(m, [f EXCEPT !.args = Append(@, value)])
    IN  CASE f.pc = "start" ->
               IF f.self.operator \notin DOMAIN OPERATORS
               THEN Return(m, Error("Operator 'TokenType." \o f.self.operator
                                       \o "' is invalid.", f.self.origin))
               ELSE IF OPERATORS[f.self.operator][1]
               THEN IF f.self.l_operand = None
                    THEN Return(m, Error("Missing left operand.", f.self.origin))
                    ELSE Call(m, "left", f.self.l_operand, f.env)
               ELSE Operation_right(m)
          [] f.pc = "left" ->
               IF IsError(value) THEN Return(m, Appended(value, f.self.origin))
               ELSE Operation_right(got)
          [] f.pc = "right" ->
               IF IsError(value) THEN Return(m, Appended(value, f.self.origin))
               ELSE Operation_apply(got)

----------------------------------------------------------------------------
(* Block.evaluate *)

\* "for step in self.steps", at step i
Block_for(m) ==
    LET f == Top(m)
    IN  IF f.i > Len(f.self.steps) THEN Return(m, None)
        ELSE Call(m, "step", f.self.steps[f.i], f.env)

\* a bug Block.evaluate could have: the steps after a RetVal are evaluated
Block_step_on(m) ==
    LET f == Top(m)
        result == m.ret
    IN  CASE f.pc = "start" -> Block_for(m)
          [] f.pc = "step" ->
               IF IsError(result) THEN Return(m, Appended(result, f.self.origin))
               ELSE Block_for(SetTop(m, [f EXCEPT !.i = @ + 1]))

Block_step(m) ==
    LET f == Top(m)
        result == m.ret
    IN  CASE f.pc = "start" -> Block_for(m)
          [] f.pc = "step" ->
               IF IsError(result) THEN Return(m, Appended(result, f.self.origin))
               ELSE IF IsRetVal(result) THEN Return(m, result)
               ELSE Block_for(SetTop(m, [f EXCEPT !.i = @ + 1]))

----------------------------------------------------------------------------
(* IfBlock.evaluate *)

\* "for step in self.steps", at step i
IfBlock_for(m) ==
    LET f == Top(m)
    IN  IF f.i > Len(f.self.steps) THEN Return(m, None)
        ELSE Call(m, "cond", f.self.steps[f.i][1], f.env)

\* a bug IfBlock.evaluate could have: after the block of a branch, the next
\* branch is tested
IfBlock_step_fallthrough(m) ==
    LET f == Top(m)
        v == m.ret
        new == Alloc(m, [n \in {} |-> None], f.env)
    IN  CASE f.pc = "start" -> IfBlock_for(m)
          [] f.pc = "cond" ->
               IF IsError(v) THEN Return(m, Appended(v, f.self.origin))
               ELSE IF Truthy(v)
               THEN Call(new, "block", f.self.steps[f.i][2], Top(new).sub)
               ELSE IfBlock_for(SetTop(m, [f EXCEPT !.i = @ + 1]))
          [] f.pc = "block" ->
               IF IsError(v) THEN Return(Free(m), Appended(v, f.self.origin))
               ELSE IfBlock_for(SetTop(Free(m), [f EXCEPT !.i = @ + 1, !.sub = 0]))

IfBlock_step(m) ==
    LET f == Top(m)
        v == m.ret
        new == Alloc(m, [n \in {} |-> None], f.env)
    IN  CASE f.pc = "start" -> IfBlock_for(m)
          [] f.pc = "cond" ->
               IF IsError(v) THEN Return(m, Appended(v, f.self.origin))
               ELSE IF Truthy(v)
               THEN Call(new, "block", f.self.steps[f.i][2], Top(new).sub)
               ELSE IfBlock_for(SetTop(m, [f EXCEPT !.i = @ + 1]))
          [] f.pc = "block" -> Return(Free(m), Appended(v, f.self.origin))

----------------------------------------------------------------------------
(* WhileLoop.evaluate *)

\* a bug WhileLoop.evaluate could have: the code is evaluated in env, not in
\* an Environment of its own
WhileLoop_code_shared(m) ==
    LET f == Top(m)
        new == Alloc(m, [n \in {} |-> None], f.env)
    IN  IF f.self.code # None
        THEN Call(new, "code", f.self.code, f.env)
        ELSE At(m, "start")

\* "if self.code is not None"; with no code the loop goes round
WhileLoop_code(m) ==
    LET f == Top(m)
        new == Alloc(m, [n \in {} |-> None], f.env)
    IN  IF f.self.code # None
        THEN Call(new, "code", f.self.code, Top(new).sub)
        ELSE At(m, "start")

\* "while True: if self.cond is not None"
WhileLoop_while(m) ==
    LET f == Top(m)
    IN  IF f.self.cond # None THEN Call(m, "cond", f.self.cond, f.env)
        ELSE WhileLoop_code(m)

WhileLoop_step(m) ==
    LET f == Top(m)
        v == m.ret
    IN  CASE f.pc = "start" -> WhileLoop_while(m)
          [] f.pc = "cond" ->
               IF IsError(v) THEN Return(m, Appended(v, f.self.origin))
               ELSE IF ~Truthy(v) THEN Return(m, None)
               ELSE WhileLoop_code(m)
          [] f.pc = "code" ->
               IF IsError(v) THEN Return(Free(m), Appended(v, f.self.origin))
               ELSE IF IsRetVal(v) THEN Return(Free(m), v)
               ELSE WhileLoop_while(Free(m))

----------------------------------------------------------------------------
(* ForLoop.evaluate *)

\* "if self.on_rpt is not None"; then the loop goes round
ForLoop_on_rpt(m) ==
    LET f == Top(m)
    IN  IF f.self.on_rpt # None THEN Call(m, "on_rpt", f.self.on_rpt, f.sub)
        ELSE At(m, "while")

\* a bug ForLoop.evaluate could have: the code is not evaluated
ForLoop_code_skipped(m) == ForLoop_on_rpt(m)

\* "if self.code is not None"
ForLoop_code(m) ==
    LET f == Top(m)
    IN  IF f.self.code # None THEN Call(m, "code", f.self.code, f.sub)
        ELSE ForLoop_on_rpt(m)

\* "while True: if self.cond is not None"
ForLoop_while(m) ==
    LET f == Top(m)
    IN  IF f.self.cond # None THEN Call(m, "cond", f.self.cond, f.sub)
        ELSE ForLoop_code(m)

ForLoop_step(m) ==
    LET f == Top(m)
        v == m.ret
        loop == Alloc(m, [n \in {} |-> None], f.env)
    IN  CASE f.pc = "start" ->
               IF f.self.first # None
               THEN Call(loop, "first", f.self.first, Top(loop).sub)
               ELSE ForLoop_while(loop)
          [] f.pc = "first" ->
               IF IsError(v) THEN Return(Free(m), Appended(v, f.self.origin))
               ELSE IF IsRetVal(v) THEN Return(Free(m), v)
               ELSE ForLoop_while(m)
          [] f.pc = "while" -> ForLoop_while(m)
          [] f.pc = "cond" ->
               IF IsError(v) THEN Return(Free(m), Appended(v, f.self.origin))
               ELSE IF ~Truthy(v) THEN Return(Free(m), None)
               ELSE ForLoop_code(m)
          [] f.pc = "code" ->
               IF IsError(v) THEN Return(Free(m), Appended(v, f.self.origin))
               ELSE IF IsRetVal(v) THEN Return(Free(m), v)
               ELSE ForLoop_on_rpt(m)
          [] f.pc = "on_rpt" ->
               IF IsError(v) THEN Return(Free(m), Appended(v, f.self.origin))
               ELSE IF IsRetVal(v) THEN Return(Free(m), v)
               ELSE ForLoop_while(m)

----------------------------------------------------------------------------
(* Function.evaluate *)

\* a bug Function.evaluate could have: the code is evaluated in the scope
\* of the caller, below the frame of the parameters
Function_step_caller(m) ==
    LET f == Top(m)
        result == m.ret
        new == Alloc(m, [n \in {} |-> None], m.heap[f.env].parent_env)
    IN  CASE f.pc = "start" -> Call(new, "code", f.self.code, Top(new).sub)
          [] f.pc = "code" ->
               IF IsError(result)
               THEN Return(Free(m), Appended(result, f.self.origin))
               ELSE IF IsRetVal(result)
               THEN Call(Free(m), "result", result, f.env)
               ELSE Return(Free(m), None)
          [] f.pc = "result" -> Return(m, result)

Function_step(m) ==
    LET f == Top(m)
        result == m.ret
        new == Alloc(m, [n \in {} |-> None], f.env)
    IN  CASE f.pc = "start" -> Call(new, "code", f.self.code, Top(new).sub)
          [] f.pc = "code" ->
               IF IsError(result)
               THEN Return(Free(m), Appended(result, f.self.origin))
               ELSE IF IsRetVal(result)
               THEN Call(Free(m), "result", result, f.env)
               ELSE Return(Free(m), None)
          [] f.pc = "result" -> Return(m, result)

----------------------------------------------------------------------------
(* Builtin.evaluate *)

\* the host functions print, min and max, called as func(*args):
\* [raised, msg] when the call raises, else the value and the line printed
HostReturn(val, printed) ==
    [raised |-> FALSE, msg |-> "", val |-> val, printed |-> printed]
HostRaise(msg) == [raised |-> TRUE, msg |-> msg, val |-> None, printed |-> <<>>]
HostCall(func, args) ==
    CASE func = "print" -> HostReturn(None, <<args>>)
      [] func \in {"min", "max"} /\ Len(args) = 0 ->
            HostRaise(func \o " expected at least 1 argument, got 0")
      [] func \in {"min", "max"} /\ Len(args) = 1 ->
            HostRaise("'" \o args[1].k \o "' object is not iterable")
      [] func \in {"min", "max"} /\ Len(args) = 2 ->
            LET a == args[1]  b == args[2]
                sym == IF func = "min" THEN "<" ELSE ">"
                lt == NumOf(b) * DenOf(a) < NumOf(a) * DenOf(b)
                gt == NumOf(b) * DenOf(a) > NumOf(a) * DenOf(b)
            IN  IF ~(IsNumber(a) /\ IsNumber(b))
                THEN HostRaise(NotSupported(sym, b, a))
                ELSE IF func = "min"
                THEN HostReturn(IF lt THEN b ELSE a, <<>>)
                ELSE HostReturn(IF gt THEN b ELSE a, <<>>)

\* "for arg in self.args", at argument i; then the call of the host function
Builtin_for(m) ==
    LET f == Top(m)
        call == HostCall(f.self.func, f.args)
    IN  IF f.i <= Len(f.self.args)
        THEN Call(m, "arg", f.self.args[f.i], f.env)
        ELSE IF call.raised THEN Return(m, Error(call.msg, f.self.origin))
        ELSE Return([m EXCEPT !.stdout = @ \o call.printed], RetVal(call.val))

Builtin_step(m) ==
    LET f == Top(m)
        arg == m.ret
    IN  CASE f.pc = "start" -> Builtin_for(m)
          [] f.pc = "arg" ->
               IF IsError(arg) THEN Return(m, Appended(arg, f.self.origin))
               ELSE Builtin_for(SetTop(m, [f EXCEPT !.args = Append(@, arg),
                                                       !.i = @ + 1]))

----------------------------------------------------------------------------
(* Invocation.evaluate *)

\* a bug Invocation.evaluate could have: the arguments are bound from the
\* last parameter backwards
BindParams_reversed(params, args) ==
    [n \in {params[i] : i \in 1..Len(params)} |->
        args[Len(args) + 1
             - CHOOSE i \in 1..Len(params) :
                 params[i] = n /\ \A j \in 1..Len(params) : params[j] = n => j <= i]]

\* the frame of a call: sub_env.local_vars[func.params[i]] = arg
BindParams(params, args) ==
    [n \in {params[i] : i \in 1..Len(params)} |->
        args[CHOOSE i \in 1..Len(params) :
               params[i] = n /\ \A j \in 1..Len(params) : params[j] = n => j <= i]]

\* a bug Invocation.evaluate could have: the arguments are not counted
Invocation_for_uncounted(m) ==
    LET f == Top(m)
        sub_env == Alloc(m, [n \in {} |-> None], f.env)
    IN  IF f.i <= Len(f.self.args)
        THEN Call(m, "arg", f.self.args[f.i], f.env)
        ELSE Call(sub_env, "call", f.func, Top(sub_env).sub)

\* "for arg in self.args", at argument i; then the call of the function
Invocation_for(m) ==
    LET f == Top(m)
        sub_env == Alloc(m, BindParams(f.func.params, f.args), f.env)
    IN  IF f.i <= Len(f.self.args)
        THEN Call(m, "arg", f.self.args[f.i], f.env)
        ELSE IF Len(f.args) # Len(f.func.params)
        THEN Return(m, Error("Function '" \o f.self.func
                                \o "' requires exactly                            "
                                \o ToString(Len(f.func.params)) \o " parameters.",
                             f.self.origin))
        ELSE Call(sub_env, "call", f.func, Top(sub_env).sub)

\* a bug Invocation.evaluate could have: the Environment of the call has the
\* outermost Environment as its parent, not env
Invocation_step_outermost(m) ==
    LET f == Top(m)
        v == m.ret
        func == Environment_get_value(f.env, f.self.func, m.heap)
    IN  CASE f.pc = "start" ->
               IF IsError(func)
               THEN Return(m, Error_append(func, "", f.self.origin))
               ELSE IF func.k # "Function"
               THEN Return(m, Error("Symbol '" \o f.self.func
                                       \o "' is not a function.", f.self.origin))
               ELSE Invocation_for(SetTop(m, [f EXCEPT !.func = func,
                                                         !.env = 1]))
          [] f.pc = "arg" ->
               IF IsError(v) THEN Return(m, Appended(v, f.self.origin))
               ELSE Invocation_for(SetTop(m, [f EXCEPT !.args = Append(@, v),
                                                          !.i = @ + 1]))
          [] f.pc = "call" -> Return(Free(m), Appended(v, f.self.origin))

Invocation_step(m) ==
    LET f == Top(m)
        v == m.ret
        func == Environment_get_value(f.env, f.self.func, m.heap)
    IN  CASE f.pc = "start" ->
               IF IsError(func)
               THEN Return(m, Error_append(func, "", f.self.origin))
               ELSE IF func.k # "Function"
               THEN Return(m, Error("Symbol '" \o f.self.func
                                       \o "' is not a function.", f.self.origin))
               ELSE Invocation_for(SetTop(m, [f EXCEPT !.func = func]))
          [] f.pc = "arg" ->
               IF IsError(v) THEN Return(m, Appended(v, f.self.origin))
               ELSE Invocation_for(SetTop(m, [f EXCEPT !.args = Append(@, v),
                                                          !.i = @ + 1]))
          [] f.pc = "call" -> Return(Free(m), Appended(v, f.self.origin))

----------------------------------------------------------------------------
(* The evaluation specification: a program is evaluated in a root           *)
(* Environment, one step of the innermost evaluate call at a time.          *)

\* the integer operands of the programs are in -MaxInt..MaxInt
MaxInt == 3
\* the for and while loops run up to MaxN times
MaxN == 3
\* fib is called with 1..MaxFib
MaxFib == 10
\* an Error is raised below up to MaxDepth enclosing expressions
MaxDepth == 2

Ints == -MaxInt..MaxInt

\* x > 3, x > 2 of the IfBlock doctest
IfBounds == <<3, 2>>

\* prepare_environment() of main.py: print, min and max
prepare_environment ==
    [n \in {"print", "min", "max"} |->
        IF n = "print"
        THEN Function(<<"x">>, Builtin("print", <<Name("x", -1)>>, -1), -1)
        ELSE Function(<<"x", "y">>,
                      Builtin(n, <<Name("x", -1), Name("y", -1)>>, -1), -1)]

\* Operation(Constant(a), op, Constant(b)) in a scope that binds x or nothing
OperationProgram(in) ==
    [node |-> Operation(Constant(IntV(in.a), -1), in.op,
                        Constant(IntV(in.b), -1), in.origin),
     local_vars |-> IF in.bound THEN [n \in {"x"} |-> IntV(1)] ELSE EmptyDict]

\* the IfBlock of the doctest of IfBlock.evaluate; the conditions are at the
\* lines 11, 12, 13 and the blocks at the lines 21, 22, 23
IfProgram(in) ==
    [node |-> IfBlock(<<
        <<Operation(Name("x", -1), "GREATER_THAN",
                    Constant(IntV(IfBounds[1]), -1), 11),
          Operation(Constant(Name("x", -1), -1), "ASSIGN",
                    Constant(IntV(1), -1), 21)>>,
        <<Operation(Name("x", -1), "GREATER_THAN",
                    Constant(IntV(IfBounds[2]), -1), 12),
          Operation(Constant(Name("x", -1), -1), "ASSIGN",
                    Constant(IntV(2), -1), 22)>>,
        <<Constant(BoolV(in.else), 13),
          Operation(Constant(Name("x", -1), -1), "ASSIGN",
                    Constant(IntV(3), -1), 23)>> >>, 10),
     local_vars |-> [n \in {"x"} |-> IntV(in.x)]]

\* the ForLoop of the doctest of ForLoop.evaluate, up to N: first is at the
\* line 31, cond at 32, on_rpt at 33, the call of print in the body at 34
ForProgram(in) ==
    [node |-> ForLoop(
        Operation(Constant(Name("i", -1), -1), "ASSIGN",
                  Constant(IntV(0), -1), 31),
        Operation(Name("i", -1), "LESS_THAN", Constant(IntV(in.N), -1), 32),
        Operation(Constant(Name("i", -1), -1), "ASSIGN",
                  Operation(Name("i", -1), "ADD", Constant(IntV(1), -1), -1),
                  33),
        Block(<<Invocation("print", <<Name("i", -1)>>, 34)>>, -1), 30),
     local_vars |-> IF in.outer
                    THEN [n \in {"i"} |-> IntV(7)] @@ prepare_environment
                    ELSE prepare_environment]

\* the WhileLoop of the doctest of WhileLoop.evaluate, from n
WhileProgram(in) ==
    [node |-> WhileLoop(
        Operation(Name("n", -1), "GREATER_THAN", Constant(IntV(0), -1), -1),
        Block(<<Invocation("print", <<Name("n", -1)>>, -1),
                Operation(Constant(Name("n", -1), -1), "ASSIGN",
                          Operation(Name("n", -1), "SUBTRACT",
                                    Constant(IntV(1), -1), -1), -1)>>, -1),
        40),
     local_vars |-> [n \in {"n"} |-> IntV(in.n)] @@ prepare_environment]

\* "garbage recursive fibonacci algorithm"
fn_fib ==
    Function(<<"n">>, Block(<<
        IfBlock(<<
            <<Operation(Name("n", -1), "LESS_EQUAL", Constant(IntV(2), -1), -1),
              Block(<<Operation(None, "RETURN", Constant(IntV(1), -1), -1)>>,
                    -1)>>,
            <<Constant(BoolV(TRUE), -1),
              Block(<<Operation(None, "RETURN", Operation(
                  Invocation("fib", <<Operation(Name("n", -1), "SUBTRACT",
                                                Constant(IntV(1), -1), -1)>>, -1),
                  "ADD",
                  Invocation("fib", <<Operation(Name("n", -1), "SUBTRACT",
                                                Constant(IntV(2), -1), -1)>>, -1),
                  -1), -1)>>, -1)>> >>, -1)>>, -1), 1)

\* ivk, for fib(n)
FibProgram(in) ==
    [node |-> Invocation("fib", <<Constant(IntV(in.n), -1)>>, 0),
     local_vars |-> [n \in {"fib"} |-> fn_fib]]

\* max(a, b) and min(a, b) in the prepared environment
CallProgram(in) ==
    [node |-> Invocation(in.func, <<Constant(IntV(in.a), -1),
                                    Constant(IntV(in.b), -1)>>, 50),
     local_vars |-> prepare_environment]

\* the ways an expression encloses another one
Enclosures ==
    {"l_operand", "r_operand", "Block", "IfBlock.cond", "IfBlock.block",
     "WhileLoop.cond", "WhileLoop.code", "ForLoop.first", "ForLoop.cond",
     "ForLoop.code", "ForLoop.on_rpt", "Builtin", "Invocation", "Function"}

\* the expressions that yield an Error themselves: an undefined name, a
\* division by zero, a host function that raises
Faults == {"Name", "Operation", "Builtin"}

Fault(fault) ==
    CASE fault = "Name" -> Name("u", -1)
      [] fault = "Operation" ->
            Operation(Constant(IntV(1), -1), "DIVIDE", Constant(IntV(0), -1), -1)
      [] fault = "Builtin" -> Builtin("max", <<Constant(IntV(1), -1)>>, -1)
      [] fault = "RETURN" ->
            Operation(None, "RETURN", Constant(IntV(7), -1), -1)
      [] fault = "max" ->
            Builtin("max", <<Constant(IntV(1), -1), Constant(IntV(2), -1)>>, -1)

\* the expression that encloses inner in the given way, at the given line
Enclose(way, inner, origin) ==
    CASE way = "l_operand" ->
            Operation(inner, "ADD", Constant(IntV(1), -1), origin)
      [] way = "r_operand" -> Operation(None, "NOT", inner, origin)
      [] way = "RETURN" -> Operation(None, "RETURN", inner, origin)
      [] way = "Block" -> Block(<<Constant(None, -1), inner>>, origin)
      [] way = "IfBlock.cond" ->
            IfBlock(<< <<inner, Block(<<>>, -1)>> >>, origin)
      [] way = "IfBlock.block" ->
            IfBlock(<< <<Constant(BoolV(FALSE), -1), Block(<<>>, -1)>>,
                       <<Constant(BoolV(TRUE), -1), inner>> >>, origin)
      [] way = "WhileLoop.cond" -> WhileLoop(inner, None, origin)
      [] way = "WhileLoop.code" -> WhileLoop(None, inner, origin)
      [] way = "ForLoop.first" -> ForLoop(inner, None, None, None, origin)
      [] way = "ForLoop.cond" -> ForLoop(None, inner, None, None, origin)
      [] way = "ForLoop.code" -> ForLoop(None, None, None, inner, origin)
      [] way = "ForLoop.on_rpt" -> ForLoop(None, None, inner, None, origin)
      [] way = "Builtin" -> Builtin("print", <<inner>>, origin)
      [] way = "Invocation" -> Invocation("print", <<inner>>, origin)
      [] way = "Function" -> Invocation("f" \o ToString(origin), <<>>, origin)

\* the fault below the enclosures ways[1], ways[2], ..., the outermost first
\* and at the line Len(ways); a Function is bound in the root Environment
NestProgram(ways, fault) ==
    IF ways = <<>>
    THEN [node |-> Fault(fault), local_vars |-> prepare_environment]
    ELSE LET inner == NestProgram(Tail(ways), fault)
             origin == Len(ways)
         IN  [node |-> Enclose(Head(ways), inner.node, origin),
              local_vars |->
                  IF Head(ways) = "Function"
                  THEN [n \in {"f" \o ToString(origin)} |->
                           Function(<<>>, inner.node, origin)]
                       @@ inner.local_vars
                  ELSE inner.local_vars]

Nests == UNION {[1..d -> Enclosures] : d \in 0..MaxDepth}

\* f(1, ..., args), at the line 60 and its arguments at the lines 61, 62,
\* where f is not bound, is bound to 5, or is a function of params
\* parameters that returns 9; the body is at the lines 65, 66 and 69
Arities == 0..2
InvokeProgram(in) ==
    [node |-> Invocation("f", [i \in 1..in.args |-> Constant(IntV(i), 60 + i)],
                         60),
     local_vars |->
        CASE in.callee = "undefined" -> EmptyDict
          [] in.callee = "int" -> [n \in {"f"} |-> IntV(5)]
          [] in.callee = "Function" ->
                [n \in {"f"} |->
                    Function(SubSeq(<<"p", "q">>, 1, in.params),
                             Block(<<Operation(None, "RETURN",
                                               Constant(IntV(9), 65), 66)>>, -1),
                             69)]]

\* f, whose body is "return x", is called where x is v1; x is v2 in the
\* callee as its parameter, or by an assignment in its body
ReturnProgram(in) ==
    [node |-> Invocation("f", IF in.way = "parameter"
                              THEN <<Constant(IntV(in.v2), -1)>>
                              ELSE <<>>, 70),
     local_vars |->
        [n \in {"x", "f"} |->
            IF n = "x" THEN IntV(in.v1)
            ELSE IF in.way = "parameter"
            THEN Function(<<"x">>,
                          Block(<<Operation(None, "RETURN", Name("x", -1), 71)>>,
                                -1), -1)
            ELSE Function(<<>>,
                          Block(<<Operation(Constant(Name("x", -1), -1), "ASSIGN",
                                            Constant(IntV(in.v2), -1), -1),
                                  Operation(None, "RETURN", Name("x", -1), 71)>>,
                                -1), -1)]]

\* f, at the line 80, whose body is a Return of 7 or the Builtin max, below
\* Returns, Blocks, IfBlocks, WhileLoops and ForLoops
MarkerWays ==
    {"RETURN", "Block", "IfBlock.block", "WhileLoop.code", "ForLoop.first",
     "ForLoop.code", "ForLoop.on_rpt"}
MarkerProgram(in) ==
    [node |-> Invocation("f", <<>>, 80),
     local_vars |->
        [n \in {"f"} |->
            Function(<<>>, Block(<<NestProgram(in.ways, in.fault).node>>, -1),
                     -1)]
        @@ NestProgram(in.ways, in.fault).local_vars]

\* a WhileLoop, at the line 85, on n: its condition is a comparison, a
\* division that fails when n is 0, an undefined name or a Return, and its
\* body counts n down, fails, returns, or returns when n is 1
LoopProgram(in) ==
    [node |-> WhileLoop(
        CASE in.cond = "n > 0" ->
                Operation(Name("n", -1), "GREATER_THAN", Constant(IntV(0), -1),
                          -1)
          [] in.cond = "1 / n" ->
                Operation(Constant(IntV(1), -1), "DIVIDE", Name("n", -1), -1)
          [] in.cond = "u" -> Name("u", -1)
          [] in.cond = "return" ->
                Operation(None, "RETURN", Constant(IntV(1), -1), -1),
        CASE in.code = "n = n - 1" ->
                Block(<<Operation(Constant(Name("n", -1), -1), "ASSIGN",
                                  Operation(Name("n", -1), "SUBTRACT",
                                            Constant(IntV(1), -1), -1), -1)>>,
                      -1)
          [] in.code = "u" -> Block(<<Name("u", -1)>>, -1)
          [] in.code = "return" ->
                Block(<<Operation(None, "RETURN", Name("n", -1), -1)>>, -1)
          [] in.code = "return at 1" ->
                Block(<<IfBlock(<< <<Operation(Name("n", -1), "LESS_EQUAL",
                                               Constant(IntV(1), -1), -1),
                                     Block(<<Operation(None, "RETURN",
                                                       Name("n", -1), -1)>>,
                                           -1)>> >>, -1),
                        Operation(Constant(Name("n", -1), -1), "ASSIGN",
                                  Operation(Name("n", -1), "SUBTRACT",
                                            Constant(IntV(1), -1), -1), -1)>>,
                      -1)
          [] in.code = "pass" -> Block(<<>>, -1),
        85),
     local_vars |-> [n \in {"n"} |-> IntV(in.n)]]

\* a Block of three statements, at the lines 91, 92, 93: the statement at
\* the line 90 + i is "x = i", but the one at in.at, if any, is "return x"
BlockProgram(in) ==
    [node |-> Block([i \in 1..3 |->
                        IF i = in.at
                        THEN Operation(None, "RETURN", Name("x", -1), 90 + i)
                        ELSE Operation(Constant(Name("x", -1), -1), "ASSIGN",
                                       Constant(IntV(i), -1), 90 + i)], -1),
     local_vars |-> IF in.bound THEN [n \in {"x"} |-> IntV(0)] ELSE EmptyDict]

\* an Operation or an Invocation of f, at the line 100, or a Block, whose
\* operands, statements or arguments, at the lines 101, 102, ..., are
\* "x = i", but the one at in.at, if any, is a fault; the body of f, at the
\* line 105, is "x = 9"
Siblings(node) == IF node = "Operation" THEN 2 ELSE 3
SiblingProgram(in) ==
    LET sibling(i) ==
            IF i = in.at
            THEN Operation(None, "NOT", Fault(in.fault), 100 + i)
            ELSE Operation(Constant(Name("x", -1), -1), "ASSIGN",
                           Constant(IntV(i), -1), 100 + i)
        siblings == [i \in 1..Siblings(in.node) |-> sibling(i)]
    IN  [node |->
            CASE in.node = "Operation" ->
                    Operation(siblings[1], "EQUAL", siblings[2], 100)
              [] in.node = "Block" -> Block(siblings, 100)
              [] in.node = "Invocation" -> Invocation("f", siblings, 100),
         local_vars |->
            [n \in {"x", "f"} |->
                IF n = "x" THEN IntV(0)
                ELSE Function(<<"a", "b", "c">>,
                        Block(<<Operation(Constant(Name("x", -1), -1), "ASSIGN",
                                          Constant(IntV(9), -1), 105)>>, -1),
                        -1)]]

\* Operation(None, op, Constant(a)), at the line 110, for a conversion op
Conversions == {"TO_INT", "TO_FLOAT", "TO_BOOL"}
ConversionProgram(in) ==
    [node |-> Operation(None, in.op, Constant(IntV(in.a), -1), 110),
     local_vars |-> EmptyDict]

\* "left = v", at the line 120, in the block of an IfBlock, where left is
\* Constant(5), Name(x) or Constant(Name(x)), and x is bound before or not
Lefts == {"Constant(5)", "Name(x)", "Constant(Name(x))"}
AssignProgram(in) ==
    [node |-> IfBlock(<< <<Constant(BoolV(TRUE), -1),
          Block(<<Operation(
                    CASE in.left = "Constant(5)" -> Constant(IntV(5), -1)
                      [] in.left = "Name(x)" -> Name("x", -1)
                      [] in.left = "Constant(Name(x))" ->
                            Constant(Name("x", -1), -1),
                    "ASSIGN", Constant(IntV(in.v), -1), 120)>>, -1)>> >>, 121),
     local_vars |-> IF in.bound THEN [n \in {"x"} |-> IntV(0)] ELSE EmptyDict]

\* the block "y = n; x = n; n = n - 1", at the lines 131 to 133, as the
\* branch of an IfBlock, the code of a WhileLoop or of a ForLoop on n > 0
\* (the ForLoop starts with "i = 0", at the line 134), or the body of a
\* function f that is called; x and n are bound before, y and i are not
Constructs == {"IfBlock", "WhileLoop", "ForLoop", "Invocation"}
ScopeProgram(in) ==
    LET set(name, value, origin) ==
            Operation(Constant(Name(name, -1), -1), "ASSIGN", value, origin)
        code == Block(<<set("y", Name("n", -1), 131),
                        set("x", Name("n", -1), 132),
                        set("n", Operation(Name("n", -1), "SUBTRACT",
                                           Constant(IntV(1), -1), -1), 133)>>,
                      -1)
        cond == Operation(Name("n", -1), "GREATER_THAN", Constant(IntV(0), -1),
                          -1)
    IN  [node |->
            CASE in.construct = "IfBlock" -> IfBlock(<< <<cond, code>> >>, 130)
              [] in.construct = "WhileLoop" -> WhileLoop(cond, code, 130)
              [] in.construct = "ForLoop" ->
                    ForLoop(set("i", Constant(IntV(0), -1), 134), cond, None,
                            code, 130)
              [] in.construct = "Invocation" -> Invocation("f", <<>>, 130),
         local_vars |->
            [name \in {"x", "n", "f"} |->
                CASE name = "x" -> IntV(0)
                  [] name = "n" -> IntV(in.n)
                  [] name = "f" -> Function(<<>>, code, -1)]]

\* f(p) { z + 0; p + 0; p = 7; return p }, the statements at the lines 141
\* to 144, called with a, at the line 145, where z and p are bound: in the
\* root Environment ("root"), or in g(z) { return f(a) }, which is called
\* with zg at the line 140 ("g")
Sites == {"root", "g"}
DynamicProgram(in) ==
    LET f == Function(<<"p">>,
                 Block(<<Operation(Name("z", -1), "ADD", Constant(IntV(0), -1),
                                   141),
                         Operation(Name("p", -1), "ADD", Constant(IntV(0), -1),
                                   142),
                         Operation(Constant(Name("p", -1), -1), "ASSIGN",
                                   Constant(IntV(7), -1), 143),
                         Operation(None, "RETURN", Name("p", -1), 144)>>, -1),
                 -1)
        call == Invocation("f", <<Constant(IntV(in.a), -1)>>, 145)
        g == Function(<<"z">>,
                 Block(<<Operation(None, "RETURN", call, -1)>>, -1), -1)
    IN  [node |-> IF in.site = "root" THEN call
                  ELSE Invocation("g", <<Constant(IntV(in.zg), -1)>>, 140),
         local_vars |->
            [name \in {"z", "p", "f", "g"} |->
                CASE name = "z" -> IntV(in.zr)
                  [] name = "p" -> IntV(in.p)
                  [] name = "f" -> f
                  [] name = "g" -> g]]

Inputs ==
    {[prog |-> "Operation", op |-> op, a |-> a, b |-> b, origin |-> origin,
      bound |-> bound] :
        op \in {"ADD", "SUBTRACT", "MULTIPLY", "DIVIDE", "MOD", "AND", "OR"},
        a \in Ints, b \in Ints, origin \in {-1, 5}, bound \in BOOLEAN}
    \cup {[prog |-> "IfBlock", x |-> x, else |-> else] :
            x \in 0..(IfBounds[1] + 2), else \in BOOLEAN}
    \cup {[prog |-> "ForLoop", N |-> N, outer |-> outer] :
            N \in 0..MaxN, outer \in BOOLEAN}
    \cup {[prog |-> "WhileLoop", n |-> n] : n \in 0..MaxN}
    \cup {[prog |-> "fib", n |-> n] : n \in 1..MaxFib}
    \cup {[prog |-> "call", func |-> func, a |-> a, b |-> b] :
            func \in {"min", "max"}, a \in Ints, b \in Ints}
    \cup {[prog |-> "nest", ways |-> ways, fault |-> fault] :
            ways \in Nests, fault \in Faults}
    \cup {[prog |-> "invoke", callee |-> callee, params |-> params,
           args |-> args] :
            callee \in {"undefined", "int", "Function"}, params \in Arities,
            args \in Arities}
    \cup {[prog |-> "return", way |-> way, v1 |-> v1, v2 |-> v2] :
            way \in {"parameter", "assignment"}, v1 \in Ints, v2 \in Ints}
    \cup {[prog |-> "marker", ways |-> ways, fault |-> fault] :
            ways \in UNION {[1..d -> MarkerWays] : d \in 0..MaxDepth},
            fault \in {"RETURN", "max"}}
    \cup {[prog |-> "loop", cond |-> cond, code |-> code, n |-> n] :
            cond \in {"n > 0", "1 / n", "u"},
            code \in {"n = n - 1", "u", "return", "return at 1"},
            n \in 0..MaxN}
    \cup {[prog |-> "loop", cond |-> "return", code |-> code, n |-> n] :
            code \in {"u", "return", "pass"}, n \in 0..MaxN}
    \cup {[prog |-> "Block", at |-> at, bound |-> bound] :
            at \in 0..3, bound \in BOOLEAN}
    \cup {[prog |-> "conversion", op |-> op, a |-> a] :
            op \in Conversions, a \in Ints}
    \cup {[prog |-> "assign", left |-> left, bound |-> bound, v |-> v] :
            left \in Lefts, bound \in BOOLEAN, v \in Ints}
    \cup {[prog |-> "scope", construct |-> construct, n |-> n] :
            construct \in Constructs, n \in 1..MaxN}
    \cup {[prog |-> "dynamic", site |-> site, zr |-> zr, zg |-> zg, a |-> a,
           p |-> p] :
            site \in Sites, zr \in 0..1, zg \in 0..1, a \in Ints, p \in Ints}
    \cup {[prog |-> "sibling", node |-> node, at |-> at, fault |-> fault] :
            node \in {"Operation", "Block", "Invocation"}, at \in 0..3,
            fault \in {"Name", "Operation"}}

Program(in) ==
    CASE in.prog = "Operation" -> OperationProgram(in)
      [] in.prog = "IfBlock" -> IfProgram(in)
      [] in.prog = "ForLoop" -> ForProgram(in)
      [] in.prog = "WhileLoop" -> WhileProgram(in)
      [] in.prog = "fib" -> FibProgram(in)
      [] in.prog = "call" -> CallProgram(in)
      [] in.prog = "nest" -> NestProgram(in.ways, in.fault)
      [] in.prog = "invoke" -> InvokeProgram(in)
      [] in.prog = "return" -> ReturnProgram(in)
      [] in.prog = "marker" -> MarkerProgram(in)
      [] in.prog = "loop" -> LoopProgram(in)
      [] in.prog = "Block" -> BlockProgram(in)
      [] in.prog = "sibling" -> SiblingProgram(in)
      [] in.prog = "dynamic" -> DynamicProgram(in)
      [] in.prog = "scope" -> ScopeProgram(in)
      [] in.prog = "assign" -> AssignProgram(in)
      [] in.prog = "conversion" -> ConversionProgram(in)

\* Program(in).node.evaluate(Environment(Program(in).local_vars)) is called,
\* for one of the given inputs
Evaluating(inputs) ==
    /\ \E in \in inputs :
          /\ last = [op |-> "evaluate", in |-> in]
          /\ heap = Environment(Program(in).local_vars, 0, <<>>)
          /\ stack = <<Frame(Program(in).node, 1)>>
    /\ ret = NoReturn
    /\ log = <<>>
    /\ stdout = <<>>
    /\ tok = NoTokenizer
    /\ ref = NoTokenizer

InitEval == Evaluating(Inputs)

\* the innermost evaluate call in progress is the one of the class k
Running(k) == stack # <<>> /\ Top(M).self.k = k

\* the machine after the step
Becomes(m) ==
    /\ heap' = m.heap
    /\ stack' = m.stack
    /\ ret' = m.ret
    /\ log' = m.log
    /\ stdout' = m.stdout
    /\ UNCHANGED <<last, tok, ref>>

Constant_evaluate == Running("Constant") /\ Becomes(Constant_step(M))
RetVal_evaluate == Running("RetVal") /\ Becomes(Constant_step(M))
Name_evaluate_call == Running("Name") /\ Becomes(Name_step(M))
Operation_evaluate == Running("Operation") /\ Becomes(Operation_step(M))
Block_evaluate == Running("Block") /\ Becomes(Block_step(M))
IfBlock_evaluate == Running("IfBlock") /\ Becomes(IfBlock_step(M))
WhileLoop_evaluate == Running("WhileLoop") /\ Becomes(WhileLoop_step(M))
ForLoop_evaluate == Running("ForLoop") /\ Becomes(ForLoop_step(M))
Function_evaluate == Running("Function") /\ Becomes(Function_step(M))
Builtin_evaluate == Running("Builtin") /\ Becomes(Builtin_step(M))
Invocation_evaluate == Running("Invocation") /\ Becomes(Invocation_step(M))

NextEval ==
    \/ Constant_evaluate
    \/ RetVal_evaluate
    \/ Name_evaluate_call
    \/ Operation_evaluate
    \/ Block_evaluate
    \/ IfBlock_evaluate
    \/ WhileLoop_evaluate
    \/ ForLoop_evaluate
    \/ Function_evaluate
    \/ Builtin_evaluate
    \/ Invocation_evaluate

SpecEval == InitEval /\ [][NextEval]_vars

\* The control flow specification: the programs with an IfBlock, a WhileLoop
\* or a ForLoop.  The interpreter is one thread that runs on until the
\* outermost call returns: a step that can be taken is taken.
InitFlow ==
    Evaluating({in \in Inputs : in.prog \in {"IfBlock", "WhileLoop", "ForLoop"}})

SpecFlow == InitFlow /\ [][NextEval]_vars /\ WF_vars(NextEval)

\* the outermost call has returned
Done == stack = <<>> /\ ret # NoReturn

----------------------------------------------------------------------------
(* Claims about the evaluation of an Operation *)

\* the run is the one of an Operation with one of the given operators
OperationRun(ops) ==
    /\ last.op = "evaluate"
    /\ last.in.prog = "Operation"
    /\ last.in.op \in ops

\* the root Environment is as it was constructed, and it is the only one
ScopeUnchanged ==
    heap = <<[local_vars |-> Program(last.in).local_vars, parent_env |-> 0]>>

\* r is a mod b: b divides a - r, and r lies between 0 and b, b excluded
IsMod(r, a, b) ==
    /\ \E q \in -(2 * MaxInt)..(2 * MaxInt) : a = q * b + r
    /\ IF b > 0 THEN 0 <= r /\ r < b ELSE b < r /\ r <= 0

\* C3: for integers a and b (b non-zero for Divide and Modulo),
\* Operation(Constant(a), op, Constant(b)) evaluates to a+b for Add, a-b for
\* Subtract, a*b for Multiply, the quotient a/b (a float) for Divide and
\* a mod b for Modulo, and the scope is never changed.
C3_Arithmetic ==
    LET a == last.in.a
        b == last.in.b
    IN  /\ OperationRun({"ADD", "SUBTRACT", "MULTIPLY", "DIVIDE", "MOD"})
            => ScopeUnchanged
        /\ OperationRun({"ADD"}) /\ Done => ret = [k |-> "int", n |-> a + b]
        /\ OperationRun({"SUBTRACT"}) /\ Done => ret = [k |-> "int", n |-> a - b]
        /\ OperationRun({"MULTIPLY"}) /\ Done => ret = [k |-> "int", n |-> a * b]
        /\ OperationRun({"DIVIDE"}) /\ Done /\ b # 0 =>
              /\ ret.k = "float"
              /\ ret.den > 0
              /\ ret.num * b = a * ret.den
        /\ OperationRun({"MOD"}) /\ Done /\ b # 0 =>
              /\ ret.k = "int"
              /\ IsMod(ret.n, a, b)

\* C3 witness: 3 / -2 has been evaluated to -1.5, in a scope that binds x
C3_Witness ==
    /\ OperationRun({"DIVIDE"})
    /\ Done
    /\ last.in.a = 3
    /\ last.in.b = -2
    /\ last.in.bound
    /\ ret = [k |-> "float", num |-> -3, den |-> 2]

\* C4: for every integer a, Operation(Constant(a), Divide, Constant(0)) and
\* Operation(Constant(a), Modulo, Constant(0)) evaluate to an Error value,
\* never to an exception of the host, whose first traceback entry is the
\* host's message of the division by zero, and the scope is unchanged.
C4_DivisionByZero ==
    OperationRun({"DIVIDE", "MOD"}) /\ Done /\ last.in.b = 0 =>
        /\ ret.k = "Error"
        /\ Len(ret.traceback) >= 1
        /\ ret.traceback[1] = IF last.in.op = "DIVIDE"
                              THEN "division by zero"
                              ELSE "integer modulo by zero"
        /\ ScopeUnchanged

\* C4 witness: -1 % 0 has been evaluated, at line 5
C4_Witness ==
    /\ OperationRun({"MOD"})
    /\ Done
    /\ last.in.a = -1
    /\ last.in.b = 0
    /\ ret = [k |-> "Error",
              traceback |-> <<"integer modulo by zero", "Line 5">>]

\* C5: for all operands a and b, Operation(Constant(a), And, Constant(b))
\* evaluates to bool(a) and bool(b), Operation(Constant(a), Or, Constant(b))
\* to bool(a) or bool(b), and neither to an Error.
C5_AndOr ==
    LET a == last.in.a # 0
        b == last.in.b # 0
    IN  /\ OperationRun({"AND"}) /\ Done => ret = [k |-> "bool", b |-> a /\ b]
        /\ OperationRun({"OR"}) /\ Done => ret = [k |-> "bool", b |-> a \/ b]

----------------------------------------------------------------------------
(* Claims about the control flow *)

RECURSIVE LinesOf(_, _)
\* the lines, among the given ones, of the calls of the log, in order
LinesOf(l, lines) ==
    IF l = <<>> THEN <<>>
    ELSE IF Head(l).origin \in lines
         THEN <<Head(l).origin>> \o LinesOf(Tail(l), lines)
         ELSE LinesOf(Tail(l), lines)

\* p is the beginning of s
IsPrefix(p, s) == Len(p) <= Len(s) /\ SubSeq(s, 1, Len(p)) = p

\* the branch of the IfBlock program that is taken when x is bound to x0:
\* the first one whose condition holds, 0 when there is none
Taken(x0, else) ==
    IF x0 > 3 THEN 1 ELSE IF x0 > 2 THEN 2 ELSE IF else THEN 3 ELSE 0

\* the conditions and the block evaluated when the branch j is taken: the
\* conditions up to the one of j, then its block
Evaluated(j) ==
    CASE j = 1 -> <<11, 21>>
      [] j = 2 -> <<11, 12, 22>>
      [] j = 3 -> <<11, 12, 13, 23>>
      [] j = 0 -> <<11, 12, 13>>

\* C6: IfBlock.evaluate tests the conditions in declaration order and
\* evaluates the block of the first branch whose condition is truthy and
\* nothing of a later branch; when no condition is truthy no block is
\* evaluated.  With the branches (x>3, x:=1), (x>2, x:=2), (true, x:=3), x
\* ends at 1 when it starts above 3, at 2 when it starts at 3, at 3 otherwise.
C6_FirstTruthyBranch ==
    last.op = "evaluate" /\ last.in.prog = "IfBlock" =>
        LET j == Taken(last.in.x, last.in.else)
            x == heap[1].local_vars["x"]
        IN  /\ IsPrefix(LinesOf(log, 11..23), Evaluated(j))
            /\ Done =>
                 /\ LinesOf(log, 11..23) = Evaluated(j)
                 /\ ret = None
                 /\ Len(heap) = 1
                 /\ x = IntV(IF j = 0 THEN last.in.x ELSE j)
                 /\ last.in.else =>
                       x = IntV(IF last.in.x > 3 THEN 1
                                ELSE IF last.in.x = 3 THEN 2 ELSE 3)

\* C6 witness: x started at 3, the second branch was taken after the first
\* condition was found false, and x is 2
C6_Witness ==
    /\ last.op = "evaluate"
    /\ last.in.prog = "IfBlock"
    /\ last.in.x = 3
    /\ last.in.else
    /\ Done
    /\ LinesOf(log, 11..23) = <<11, 12, 22>>
    /\ heap[1].local_vars["x"] = IntV(2)

RECURSIVE Rounds(_)
\* n times: the body (line 34), on_rpt (line 33), cond (line 32)
Rounds(n) == IF n = 0 THEN <<>> ELSE <<34, 33, 32>> \o Rounds(n - 1)

\* what print has written when the body has run for i = 0, ..., n-1
Collected(n) == [i \in 1..n |-> <<[k |-> "int", n |-> i - 1]>>]

ForRun == last.op = "evaluate" /\ last.in.prog = "ForLoop"

\* the ForLoop is about to return: its cond has been found falsy
ForLoop_returns ==
    /\ ForRun
    /\ Len(stack) = 1
    /\ stack[1].pc = "cond"
    /\ ret = [k |-> "bool", b |-> FALSE]

\* C7: the ForLoop with the header (i=0; i<N; i=i+1) evaluates first once,
\* then cond, body, on_rpt in this order, again and again; the body observes
\* i = 0, 1, ..., N-1 in this order; the loop terminates; and when it does
\* the loop scope binds i to N.
C7_ForLoop ==
    /\ [](ForRun =>
            /\ IsPrefix(LinesOf(log, 31..34), <<31, 32>> \o Rounds(last.in.N))
            /\ IsPrefix(stdout, Collected(last.in.N)))
    /\ [](ForLoop_returns =>
            /\ LinesOf(log, 31..34) = <<31, 32>> \o Rounds(last.in.N)
            /\ stdout = Collected(last.in.N)
            /\ Binders(stack[1].sub, "i", heap) # {}
            /\ heap[Nearest(stack[1].sub, "i", heap)].local_vars["i"]
                 = [k |-> "int", n |-> last.in.N]
            /\ ~last.in.outer => Nearest(stack[1].sub, "i", heap) = stack[1].sub)
    /\ [](ForRun /\ Done => ret = None /\ stdout = Collected(last.in.N))
    /\ (ForRun => <>Done)

\* C7 witness: the loop up to MaxN has run its MaxN rounds and is about to
\* return, in a scope that did not bind i
C7_Witness ==
    /\ ForLoop_returns
    /\ last.in.N = MaxN
    /\ ~last.in.outer
    /\ Len(stdout) = MaxN
    /\ heap[stack[1].sub].local_vars["i"] = IntV(MaxN)

----------------------------------------------------------------------------
(* Claims about functions *)

RECURSIVE FibPair(_)
\* the n-th and the n+1-th Fibonacci numbers
FibPair(n) ==
    IF n = 1 THEN <<1, 1>>
    ELSE <<FibPair(n - 1)[2], FibPair(n - 1)[1] + FibPair(n - 1)[2]>>

CallRun == last.op = "evaluate" /\ last.in.prog = "call"

\* C8: an Invocation returns what the body of the function returns, with the
\* parameters bound in order to the evaluated arguments, also through
\* recursive calls: fib(n) is the n-th Fibonacci number for n in 1..MaxFib,
\* fib(10) is 55, and max(a, b) is the larger argument in both orders.
C8_Invocation ==
    /\ last.op = "evaluate" /\ last.in.prog = "fib" /\ Done =>
          /\ ret = [k |-> "int", n |-> FibPair(last.in.n)[1]]
          /\ last.in.n = 10 => ret = [k |-> "int", n |-> 55]
    /\ CallRun =>
          \A i \in 1..Len(stack) :
              stack[i].self.k = "Function" =>
                  heap[stack[i].env].local_vars =
                      [n \in {"x", "y"} |->
                          [k |-> "int",
                           n |-> IF n = "x" THEN last.in.a ELSE last.in.b]]
    /\ CallRun /\ Done /\ last.in.func = "max" =>
          ret = [k |-> "int",
                 n |-> IF last.in.a >= last.in.b THEN last.in.a ELSE last.in.b]

\* C8 witness: fib(10) has returned 55
C8_Witness ==
    /\ last.op = "evaluate"
    /\ last.in.prog = "fib"
    /\ last.in.n = 10
    /\ Done
    /\ ret = [k |-> "int", n |-> 55]

\* the lines of the nodes that have returned
Returned == {log[i].origin : i \in 1..Len(log)}

\* C16: the call of a name that is bound in no frame of the scope chain, or
\* is bound to a value that is not a function, or is a function of another
\* number of parameters than there are arguments, returns an Error and the
\* body of the function is never run; when the name is not bound or is no
\* function, no argument is evaluated either.
C16_InvocationErrors ==
    /\ last.op = "evaluate"
    /\ last.in.prog = "invoke"
    /\ last.in.callee # "Function" \/ last.in.params # last.in.args
    => /\ Returned \cap {65, 66, 69} = {}
       /\ last.in.callee # "Function" => Returned \cap {61, 62} = {}
       /\ Done => IsError(ret)

\* a function of one parameter was called with two arguments: both were
\* evaluated, and the call returned an Error
C16_Witness ==
    /\ last.op = "evaluate"
    /\ last.in.prog = "invoke"
    /\ last.in.callee = "Function"
    /\ last.in.params = 1
    /\ last.in.args = 2
    /\ Done
    /\ IsError(ret)
    /\ {61, 62} \subseteq Returned

\* the run is the call of a function whose body is "return x"
ReturnRun == last.op = "evaluate" /\ last.in.prog = "return"

\* C17 as it was claimed: the name a function body returns is resolved in
\* the caller's scope: where x is v1 at the call and v2 in the callee, a
\* function whose body is "return x" yields v1.
C17_ReturnCallerScope == ReturnRun /\ Done => ret = IntV(last.in.v1)

\* C17: the name a function body returns is resolved in the callee's
\* scope, as the Return is evaluated: where x is v1 at the call and v2 in
\* the callee, as its parameter or by an assignment in its body, a function
\* whose body is "return x" yields v2.
C17_ReturnCalleeScope ==
    ReturnRun =>
       /\ \A i \in 1..Len(log) :
             log[i].origin = 71 => log[i].val = RetVal(IntV(last.in.v2))
       /\ Done => ret = IntV(last.in.v2)

\* the call has returned the parameter x of the callee, and x is still
\* another value at the call
C17_Witness ==
    /\ ReturnRun
    /\ last.in.way = "parameter"
    /\ last.in.v1 # last.in.v2
    /\ Done
    /\ ret = IntV(last.in.v2)
    /\ heap[1].local_vars["x"] = IntV(last.in.v1)

\* the run is the call of a function whose body is a Return or a Builtin
\* below Returns, Blocks, IfBlocks, WhileLoops and ForLoops
MarkerRun == last.op = "evaluate" /\ last.in.prog = "marker"

\* the value of the Invocation of the run is never a RetVal
InvocationUnwraps ==
    MarkerRun =>
       /\ \A i \in 1..Len(log) : log[i].origin = 80 => ~IsRetVal(log[i].val)
       /\ Done => ~IsRetVal(ret)

\* a Block, IfBlock, WhileLoop or ForLoop of the run whose inner expression
\* yielded a RetVal returns that RetVal
PassesRetVal ==
    MarkerRun =>
       \A i, j \in 1..Len(log) :
          /\ j = i + 1
          /\ Len(last.in.ways) = 2
          /\ last.in.ways[1] # "RETURN"
          /\ log[i].origin = 1
          /\ log[j].origin = 2
          /\ IsRetVal(log[i].val)
          => log[j].val = log[i].val

\* C18: a RetVal is consumed only by the evaluation of a function: for a
\* function body of Returns, Blocks, IfBlocks, WhileLoops, ForLoops and
\* Builtins, a Return of a Return among them, the value of the Invocation
\* is never a RetVal, while a Block, IfBlock, WhileLoop or ForLoop returns
\* the RetVal produced inside it unchanged.
C18_RetValConsumed == InvocationUnwraps /\ PassesRetVal

\* the WhileLoop of the run is to take its next step: it is called, or its
\* condition or its code has returned to it
LoopRun == last.op = "evaluate" /\ last.in.prog = "loop" /\ Len(stack) = 1

\* the condition is evaluated first, and again after the code
CondBeforeCode ==
    /\ LoopRun
    /\ \/ stack[1].pc = "start"
       \/ stack[1].pc = "code" /\ ~IsError(ret) /\ ~IsRetVal(ret)
    => /\ Len(stack') = 2
       /\ stack'[1].pc = "cond"
       /\ stack'[2].self = stack[1].self.cond

\* an Error or a RetVal of the condition or of the code is returned at once
LoopReturnsAtOnce ==
    /\ LoopRun
    /\ stack[1].pc \in {"cond", "code"}
    /\ IsError(ret) \/ IsRetVal(ret)
    => /\ stack' = <<>>
       /\ ret' = IF IsError(ret) THEN Appended(ret, stack[1].self.origin)
                 ELSE ret

\* C19: WhileLoop.evaluate evaluates its condition before every iteration,
\* and as soon as the condition or the code evaluates to an Error or to a
\* RetVal it returns that value, and evaluates neither of them again.
C19_WhileLoopPropagates == [][CondBeforeCode /\ LoopReturnsAtOnce]_vars

\* the run is the one of a Block of three statements "x = i", one of which
\* may be "return x"
BlockRun == last.op = "evaluate" /\ last.in.prog = "Block"

\* the value of x in the scope the Block was given
ScopeX == IF "x" \in DOMAIN heap[1].local_vars THEN heap[1].local_vars["x"]
          ELSE NoReturn

\* C20: Block.evaluate evaluates its statements in the order of the list, in
\* the scope it was given and no new one; at the first statement that
\* evaluates to a RetVal it returns that RetVal and evaluates no later
\* statement, so that the scope shows no effect of one; and if no statement
\* yields an Error or a RetVal the result of the block is None.
C20_BlockOrder ==
    BlockRun =>
       /\ Len(heap) = 1
       /\ \A i \in 1..Len(stack) : stack[i].env = 1
       /\ \A i \in 1..Len(log) :
             /\ log[i].origin = 90 + i
             /\ IsRetVal(log[i].val) => i = Len(log) /\ i = last.in.at
       /\ Len(log) >= 1 /\ IsRetVal(log[Len(log)].val) =>
             /\ ScopeX = log[Len(log)].val.value
             /\ ScopeX = IntV(last.in.at - 1)
             /\ Done => ret = log[Len(log)].val
       /\ Done /\ last.in.at = 0 =>
             ret = None /\ Len(log) = 3 /\ ScopeX = IntV(3)

\* the Block has returned the RetVal of its second statement, and x is what
\* the first statement made it
C20_Witness ==
    /\ BlockRun
    /\ last.in.at = 2
    /\ Done
    /\ ret = RetVal(IntV(1))
    /\ Len(log) = 2
    /\ ScopeX = IntV(1)

\* the run is the one of an Operation, a Block or an Invocation with a
\* fault among its operands, statements or arguments
SiblingRun ==
    /\ last.op = "evaluate"
    /\ last.in.prog = "sibling"
    /\ last.in.at \in 1..Siblings(last.in.node)

\* C21: in Operation, Block and Invocation, once a sub-expression has
\* evaluated to an Error no later sibling is evaluated: not the right
\* operand after the left one, not the statements after statement i, not
\* the arguments after argument i nor the body of the function, and the
\* scope shows no assignment of a later sibling.
C21_NoLaterSibling ==
    SiblingRun =>
       /\ \A i \in 1..Len(log) :
             /\ log[i].origin = IF i <= last.in.at THEN 100 + i ELSE 100
             /\ i >= last.in.at => IsError(log[i].val)
       /\ Len(log) <= last.in.at + 1
       /\ ScopeX \in {IntV(i) : i \in 0..(last.in.at - 1)}
       /\ Done => IsError(ret) /\ ScopeX = IntV(last.in.at - 1)

\* the second of three arguments was the Error: the call has returned it,
\* x is what the first argument made it
C21_Witness ==
    /\ SiblingRun
    /\ last.in.node = "Invocation"
    /\ last.in.at = 2
    /\ Done
    /\ IsError(ret)
    /\ Len(log) = 3
    /\ ScopeX = IntV(1)

\* the Operation "left = v" of the run returns in this step
AssignReturns ==
    /\ last.op = "evaluate"
    /\ last.in.prog = "assign"
    /\ stack # <<>>
    /\ stack[Len(stack)].self.origin = 120
    /\ Len(stack') = Len(stack) - 1

\* C25: an ASSIGN whose left operand evaluates to something that is not a
\* Name, an integer Constant or a bare Name, which evaluates to its value,
\* returns an Error and leaves every Environment of the chain as it was;
\* when the left operand is a Constant of a Name, the value of the right
\* operand is bound to the name and the Operation returns None.
C25_Assign ==
    [][AssignReturns =>
          IF last.in.left = "Constant(Name(x))"
          THEN /\ ret' = None
               /\ Name_evaluate(Name("x", -1), stack[Len(stack)].env, heap')
                     = IntV(last.in.v)
          ELSE /\ IsError(ret')
               /\ heap' = heap]_vars

\* x = v was evaluated where x was bound to 0 in the enclosing scope
C25_Witness ==
    /\ last.op = "evaluate"
    /\ last.in.prog = "assign"
    /\ last.in.left = "Constant(Name(x))"
    /\ last.in.bound
    /\ last.in.v # 0
    /\ \E i \in 1..Len(log) : log[i].origin = 120 /\ log[i].val = None
    /\ Len(heap) = 2
    /\ heap[1].local_vars["x"] = IntV(last.in.v)

\* the run is the one of a block that binds y, in an IfBlock, a WhileLoop,
\* a ForLoop or a function
ScopeRun == last.op = "evaluate" /\ last.in.prog = "scope"

\* the code of the construct is about to be evaluated
CodeStarts ==
    /\ stack # <<>>
    /\ stack[Len(stack)].self.k = "Block"
    /\ stack[Len(stack)].pc = "start"

\* C26: the Environments made for the branch of an IfBlock, for each
\* iteration of a WhileLoop, for a ForLoop and for the call of a function
\* are discarded when the node has finished: a name first bound inside is
\* not bound in the enclosing Environment afterwards, a name first bound in
\* one iteration of a WhileLoop is not visible in the next, and the
\* enclosing Environment shows only the assignments to the names it bound.
C26_FramesDiscarded ==
    ScopeRun =>
       /\ DOMAIN heap[1].local_vars = {"x", "n", "f"}
       /\ last.in.construct = "WhileLoop" /\ CodeStarts =>
             /\ DOMAIN heap[stack[Len(stack)].env].local_vars = {}
             /\ IsError(Name_evaluate(Name("y", -1), stack[Len(stack)].env,
                                      heap))
       /\ Done =>
             /\ Len(heap) = 1
             /\ heap[1].local_vars["x"]
                   = IntV(IF last.in.construct \in {"WhileLoop", "ForLoop"}
                          THEN 1 ELSE last.in.n)
             /\ heap[1].local_vars["n"]
                   = IntV(IF last.in.construct \in {"WhileLoop", "ForLoop"}
                          THEN 0 ELSE last.in.n - 1)

\* the second iteration of the WhileLoop starts: the first one has counted
\* n down and y is not bound
C26_Witness ==
    /\ ScopeRun
    /\ last.in.construct = "WhileLoop"
    /\ CodeStarts
    /\ heap[1].local_vars["n"] = IntV(last.in.n - 1)
    /\ heap[1].local_vars["x"] = IntV(last.in.n)
    /\ IsError(Name_evaluate(Name("y", -1), stack[Len(stack)].env, heap))

\* the run is the one of a call of f from the root Environment or from g
DynamicRun == last.op = "evaluate" /\ last.in.prog = "dynamic"

\* C27: the Environment of a call has the Environment of the call site as
\* its parent: a name that is free in the body of the function is resolved
\* from the Environment in which the Invocation is evaluated, so that a
\* function called from two scopes that bind the name differently sees two
\* values; the parameters are bound in the new Environment and shadow the
\* outer bindings of their names; and an assignment to a parameter in the
\* body does not change the binding of the caller.
C27_CallSiteScope ==
    DynamicRun =>
       /\ \A i \in 1..Len(log) :
             /\ log[i].origin = 141 =>
                   log[i].val = IntV(IF last.in.site = "g" THEN last.in.zg
                                     ELSE last.in.zr)
             /\ log[i].origin = 142 => log[i].val = IntV(last.in.a)
             /\ log[i].origin = 145 => log[i].val = IntV(7)
       /\ heap[1].local_vars["p"] = IntV(last.in.p)
       /\ heap[1].local_vars["z"] = IntV(last.in.zr)
       /\ Done => ret = IntV(7)

\* f was called from g, where z is not what it is in the root Environment,
\* with an argument that is not the p of the root Environment
C27_Witness ==
    /\ DynamicRun
    /\ last.in.site = "g"
    /\ last.in.zg # last.in.zr
    /\ last.in.a # last.in.p
    /\ Done
    /\ \E i \in 1..Len(log) :
          log[i].origin = 141 /\ log[i].val = IntV(last.in.zg)
    /\ \E i \in 1..Len(log) :
          log[i].origin = 142 /\ log[i].val = IntV(last.in.a)
    /\ heap[1].local_vars["p"] = IntV(last.in.p)

----------------------------------------------------------------------------
(* Claims about the traceback *)

NestRun == last.op = "evaluate" /\ last.in.prog = "nest"

\* C9: when an evaluate call has returned an Error, the call that encloses
\* it returns next, and it returns this Error with exactly one more entry at
\* the end of the traceback (so the traceback never gets shorter); an Error
\* raised below d enclosing expressions has at least d entries at the top.
C9_TracebackGrows ==
    /\ [][stack # <<>> /\ IsError(ret) =>
            /\ stack' = SubSeq(stack, 1, Len(stack) - 1)
            /\ IsError(ret')
            /\ Len(ret'.traceback) = Len(ret.traceback) + 1
            /\ SubSeq(ret'.traceback, 1, Len(ret.traceback)) = ret.traceback]_vars
    /\ [](NestRun /\ Done =>
            /\ IsError(ret)
            /\ Len(ret.traceback) >= Len(last.in.ways))

\* C9 witness: a division by zero in the left operand of an Operation at
\* line 1, which is a step of a Block, has reached the top with four entries
C9_Witness ==
    /\ NestRun
    /\ Done
    /\ last.in.ways = <<"Block", "l_operand">>
    /\ last.in.fault = "Operation"
    /\ ret = [k |-> "Error",
              traceback |-> <<"division by zero", "", "Line 1", "">>]

----------------------------------------------------------------------------
(* src/tokenizer.py.  A script is a sequence of characters (strings of     *)
(* length one); script[index] of Python is script[index + 1] here.         *)

ROTATING_TOKEN_COUNT == 17
ROTATING_TOKEN_OFFSET == 16

\* class TokenType: the names, the one of value v at v + 1
TokenType ==
    <<"UNKNOWN", "EOF", "EOL", "COMMA", "RETURN", "OPEN_PAR", "CLOSING_PAR",
      "OPEN_BLOCK", "CLOSING_BLOCK", "NAME", "INT", "FLOAT", "STRING",
      "CONDITIONAL", "FOR_LOOP", "WHILE_LOOP", "ADD", "SUBTRACT", "MULTIPLY",
      "DIVIDE", "ASSIGN", "EQUAL", "GREATER_THAN", "GREATER_EQUAL",
      "LESS_THAN", "LESS_EQUAL", "TO_INT", "TO_FLOAT", "TO_BOOL", "NOT", "AND",
      "OR", "MOD">>

\* TokenType.<name>.value
TokenType_value(name) ==
    (CHOOSE i \in 1..Len(TokenType) : TokenType[i] = name) - 1

TokenType_is_operator(name) == TokenType_value(name) >= ROTATING_TOKEN_OFFSET

StrV(s) == [k |-> "str", s |-> s]

\* Token(token_type, payload)
Token(token_type, payload) ==
    [k |-> "Token", token_type |-> token_type, payload |-> payload]

\* str.isspace, str.isdigit, str.isupper, str.isalpha on the ASCII characters
Upper ==
    <<"A", "B", "C", "D", "E", "F", "G", "H", "I", "J", "K", "L", "M", "N",
      "O", "P", "Q", "R", "S", "T", "U", "V", "W", "X", "Y", "Z">>
Lower ==
    <<"a", "b", "c", "d", "e", "f", "g", "h", "i", "j", "k", "l", "m", "n",
      "o", "p", "q", "r", "s", "t", "u", "v", "w", "x", "y", "z">>
Digit == <<"0", "1", "2", "3", "4", "5", "6", "7", "8", "9">>
Range(seq) == {seq[i] : i \in 1..Len(seq)}
isspace == {" ", "\t", "\n", "\r"}
isdigit == Range(Digit)
isupper == Range(Upper)
isalpha == Range(Upper) \cup Range(Lower)

\* ord(c) - ord("A") for an uppercase letter
ord(c) == (CHOOSE i \in 1..Len(Upper) : Upper[i] = c) - 1

\* int(digits)
int(digits) ==
    IF digits = <<>> THEN 0
    ELSE 10 * int(SubSeq(digits, 1, Len(digits) - 1))
         + (CHOOSE i \in 1..Len(Digit) : Digit[i] = digits[Len(digits)]) - 1

\* script[start:stop] as a str
Join(chars) == IF chars = <<>> THEN "" ELSE Head(chars) \o Join(Tail(chars))
Slice(script, start, stop) == SubSeq(script, start + 1, stop)

\* "while self.index < len(self.script) and self.script[self.index] in class:
\*      self.index += 1": the index after the loop
Scan(script, index, class) ==
    IF index < Len(script) /\ script[index + 1] \in class
    THEN Scan(script, index + 1, class)
    ELSE index

\* the same loop, while the character is not the given one
ScanTo(script, index, char) ==
    IF index < Len(script) /\ script[index + 1] # char
    THEN ScanTo(script, index + 1, char)
    ELSE index

\* Tokenizer(script)
Tokenizer(script) ==
    [script |-> script, index |-> -1, shift |-> 0, next_token |-> None]

\* a method of the Tokenizer returns val (or raises it) and leaves self as t
Yield(t, val) == [self |-> t, val |-> val]

\* a bug _get_numerical_token could have: the index is left before the
\* number, not on its last digit
Tokenizer_get_numerical_token_back(self) ==
    LET start == self.index
        index == Scan(self.script, self.index + 1, isdigit) - 1
    IN  Yield([self EXCEPT !.index = start - 1],
              Token("INT", IntV(int(Slice(self.script, start, index + 1)))))

Tokenizer_get_numerical_token(self) ==
    LET start == self.index
        index == Scan(self.script, self.index + 1, isdigit) - 1
    IN  Yield([self EXCEPT !.index = index],
              Token("INT", IntV(int(Slice(self.script, start, index + 1)))))

Tokenizer_get_string_token(self) ==
    LET start == self.index + 1
        index == ScanTo(self.script, self.index + 1, "\"")
    IN  Yield([self EXCEPT !.index = index],
              Token("STRING", StrV(Join(Slice(self.script, start, index)))))

\* a bug _get_operator_token_from could have: the shift is not wrapped
Tokenizer_get_operator_token_from_unwrapped(self, operator_string) ==
    LET value == ord(operator_string) + ROTATING_TOKEN_OFFSET - self.shift
    IN  IF value \in 0..(Len(TokenType) - 1)
        THEN Yield([self EXCEPT !.shift = @ + 1],
                   Token(TokenType[value + 1], None))
        ELSE Yield(self, Raise("ValueError"))

\* TokenType(value) raises ValueError when no member has the value, and
\* then the shift is not done
Tokenizer_get_operator_token_from(self, operator_string) ==
    LET value == ord(operator_string) + ROTATING_TOKEN_OFFSET - self.shift
    IN  IF value \in 0..(Len(TokenType) - 1)
        THEN Yield([self EXCEPT !.shift = (@ + 1) % ROTATING_TOKEN_COUNT],
                   Token(TokenType[value + 1], None))
        ELSE Yield(self, Raise("ValueError"))

\* the index is left after the last uppercase letter, not on it; "assert
\* False" raises AssertionError (the interpreter is run without -O)
Tokenizer_get_control_flow_token(self) ==
    LET start == self.index
        index == Scan(self.script, self.index + 1, isupper)
        scanned == [self EXCEPT !.index = index]
        keyword == Join(Slice(self.script, start, index))
    IN  IF index - start = 1
        THEN Tokenizer_get_operator_token_from(scanned, self.script[start + 1])
        ELSE CASE keyword = "IF" -> Yield(scanned, Token("CONDITIONAL", None))
               [] keyword = "FOR" -> Yield(scanned, Token("FOR_LOOP", None))
               [] keyword = "WHILE" -> Yield(scanned, Token("WHILE_LOOP", None))
               [] OTHER -> Yield(scanned, Raise("AssertionError"))

Tokenizer_get_name_token(self) ==
    LET start == self.index
        index == Scan(self.script, self.index + 1, isalpha) - 1
    IN  Yield([self EXCEPT !.index = index],
              Token("NAME", StrV(Join(Slice(self.script, start, index + 1)))))

\* get_next_token falls off its end, and returns None, at a character that
\* starts no token
Tokenizer_get_next_token(self) ==
    LET index == Scan(self.script, self.index + 1, isspace)
        scanned == [self EXCEPT !.index = index]
        c == self.script[index + 1]
    IN  IF self.next_token # None
        THEN Yield([self EXCEPT !.next_token = None], self.next_token)
        ELSE IF index >= Len(self.script) THEN Yield(scanned, Token("EOF", None))
        ELSE CASE c = ")" -> Yield(scanned, Token("OPEN_PAR", None))
               [] c = "(" -> Yield(scanned, Token("CLOSING_PAR", None))
               [] c = "|" -> Yield(scanned, Token("EOL", None))
               [] c = "," -> Yield(scanned, Token("COMMA", None))
               [] c = "[" -> Yield(scanned, Token("OPEN_BLOCK", None))
               [] c = "]" -> Yield(scanned, Token("CLOSING_BLOCK", None))
               [] c \in isdigit -> Tokenizer_get_numerical_token(scanned)
               [] c = "\"" -> Tokenizer_get_string_token(scanned)
               [] c \in isupper -> Tokenizer_get_control_flow_token(scanned)
               [] c \in isalpha \ isupper -> Tokenizer_get_name_token(scanned)
               [] OTHER -> Yield(scanned, None)

\* when get_next_token raises, the assignment to next_token is not done
Tokenizer_peek_next_token(self) ==
    LET got == Tokenizer_get_next_token(self)
    IN  IF self.next_token # None THEN Yield(self, self.next_token)
        ELSE IF got.val.k = "Raise" THEN got
        ELSE Yield([got.self EXCEPT !.next_token = got.val], got.val)

----------------------------------------------------------------------------
(* src/pain_parser.py.  A Parser holds nothing but its Tokenizer: a method  *)
(* takes the Tokenizer as it finds it and, as Yield(t, val), leaves it as t *)
(* and returns val or raises it.  The parser passes no origin on: every     *)
(* node it builds has origin -1.                                            *)

RECURSIVE Parser_parse_line(_)
RECURSIVE Parser_parse_comparison(_)
RECURSIVE Parser_parse_mul_div(_)
RECURSIVE Parser_parse_add_sub(_)
RECURSIVE Parser_parse_and(_)
RECURSIVE Parser_parse_or(_)
RECURSIVE Parser_parse_assignment(_)
RECURSIVE Parser_parse_conditional(_, _)
RECURSIVE Parser_skip(_, _)
RECURSIVE Parser_arguments(_, _)
RECURSIVE Parser_lines(_, _)
RECURSIVE Parser_params(_, _)

\* Parser(script)
Parser(script) == Tokenizer(script)

\* TokenType.<name> raises AttributeError when the class has no such member;
\* so does an attribute of None, which get_next_token returns at a
\* character that starts no token
hasattr(name) == name \in Range(TokenType)
AttributeError == Raise("AttributeError")

\* "x = call; rest": an exception raised in the call is raised by the caller
Raised(y) == y.val.k = "Raise"
Then(y, rest(_)) == IF Raised(y) THEN y ELSE rest(y)

\* the same, where rest starts with an attribute of the token returned
Attr(y, rest(_)) ==
    IF Raised(y) THEN y
    ELSE IF y.val = None THEN Yield(y.self, AttributeError)
    ELSE rest(y)

Parser_get_as_expression(y) ==
    Attr(y, LAMBDA token :
    IF token.val.token_type \in {"FLOAT", "INT", "STRING"}
    THEN Yield(token.self, Constant(token.val.payload, -1))
    ELSE IF token.val.token_type = "NAME"
    THEN Yield(token.self, Name(token.val.payload.s, -1))
    ELSE Yield(token.self, Raise("Exception")))

Parser_parse_unitary_operator(t) ==
    Attr(Tokenizer_get_next_token(t), LAMBDA operator :
    Then(Parser_parse_line(operator.self), LAMBDA line :
    Yield(line.self, Operation(None, operator.val.token_type, line.val, -1))))

\* the token got after the term is not looked at
Parser_parse_parentheses(t) ==
    Attr(Tokenizer_peek_next_token(t), LAMBDA next_token :
    IF next_token.val.token_type = "OPEN_PAR"
    THEN Then(Tokenizer_get_next_token(next_token.self), LAMBDA got :
         Then(Parser_parse_comparison(got.self), LAMBDA term :
         Then(Tokenizer_get_next_token(term.self), LAMBDA closing :
         Yield(closing.self, term.val))))
    ELSE Parser_get_as_expression(Tokenizer_get_next_token(next_token.self)))

Parser_parse_mul_div(t) ==
    Then(Parser_parse_parentheses(t), LAMBDA l_operand :
    Attr(Tokenizer_peek_next_token(l_operand.self), LAMBDA next_token :
    IF next_token.val.token_type \in {"MULTIPLY", "DIVIDE", "MOD"}
    THEN Then(Tokenizer_get_next_token(next_token.self), LAMBDA operator :
         Then(Parser_parse_mul_div(operator.self), LAMBDA r_operand :
         Yield(r_operand.self,
               Operation(l_operand.val, operator.val.token_type,
                         r_operand.val, -1))))
    ELSE Yield(next_token.self, l_operand.val)))

Parser_parse_add_sub(t) ==
    Then(Parser_parse_mul_div(t), LAMBDA l_operand :
    Attr(Tokenizer_peek_next_token(l_operand.self), LAMBDA next_token :
    IF next_token.val.token_type \in {"ADD", "SUBTRACT"}
    THEN Then(Tokenizer_get_next_token(next_token.self), LAMBDA operator :
         Then(Parser_parse_add_sub(operator.self), LAMBDA r_operand :
         Yield(r_operand.self,
               Operation(l_operand.val, operator.val.token_type,
                         r_operand.val, -1))))
    ELSE Yield(next_token.self, l_operand.val)))

\* "while next_operator == TokenType.COMMA": the arguments and the token
\* that ends them
Parser_arguments(t, arguments) ==
    Then(Parser_parse_line(t), LAMBDA line :
    Attr(Tokenizer_get_next_token(line.self), LAMBDA next_operator :
    IF next_operator.val.token_type = "COMMA"
    THEN Parser_arguments(next_operator.self, Append(arguments, line.val))
    ELSE Yield(next_operator.self,
               [k |-> "list", items |-> Append(arguments, line.val),
                next_operator |-> next_operator.val.token_type])))

Parser_parse_invocation(t) ==
    Then(Parser_parse_add_sub(t), LAMBDA l_operand :
    Attr(Tokenizer_peek_next_token(l_operand.self), LAMBDA next_token :
    IF next_token.val.token_type = "OPEN_PAR"
    THEN Then(Tokenizer_get_next_token(next_token.self), LAMBDA got :
         Then(Parser_arguments(got.self, <<>>), LAMBDA arguments :
         IF arguments.val.next_operator # "CLOSING_PAR"
         THEN Yield(arguments.self, Raise("AssertionError"))
         ELSE IF l_operand.val.k # "Name"
         THEN Yield(arguments.self, AttributeError)
         ELSE Yield(arguments.self,
                    Invocation(l_operand.val.name, arguments.val.items, -1))))
    ELSE Yield(next_token.self, l_operand.val)))

Parser_parse_term(t) ==
    Attr(Tokenizer_peek_next_token(t), LAMBDA left :
    IF TokenType_is_operator(left.val.token_type)
    THEN Parser_parse_unitary_operator(left.self)
    ELSE Parser_parse_invocation(left.self))

Parser_parse_comparison(t) ==
    Then(Parser_parse_term(t), LAMBDA l_operand :
    Attr(Tokenizer_peek_next_token(l_operand.self), LAMBDA next_token :
    IF next_token.val.token_type
           \in {"EQUAL", "LESS_EQUAL", "LESS_THAN", "GREATER_EQUAL",
                "GREATER_THAN"}
    THEN Then(Tokenizer_get_next_token(next_token.self), LAMBDA operator :
         Then(Parser_parse_comparison(operator.self), LAMBDA r_operand :
         Yield(r_operand.self,
               Operation(l_operand.val, operator.val.token_type,
                         r_operand.val, -1))))
    ELSE Yield(next_token.self, l_operand.val)))

Parser_parse_and(t) ==
    Then(Parser_parse_comparison(t), LAMBDA l_operand :
    Attr(Tokenizer_peek_next_token(l_operand.self), LAMBDA next_token :
    IF next_token.val.token_type = "AND"
    THEN Then(Tokenizer_get_next_token(next_token.self), LAMBDA operator :
         Then(Parser_parse_and(operator.self), LAMBDA r_operand :
         Yield(r_operand.self,
               Operation(l_operand.val, operator.val.token_type,
                         r_operand.val, -1))))
    ELSE Yield(next_token.self, l_operand.val)))

Parser_parse_or(t) ==
    Then(Parser_parse_and(t), LAMBDA l_operand :
    Attr(Tokenizer_peek_next_token(l_operand.self), LAMBDA next_token :
    IF next_token.val.token_type = "OR"
    THEN Then(Tokenizer_get_next_token(next_token.self), LAMBDA operator :
         Then(Parser_parse_or(operator.self), LAMBDA r_operand :
         Yield(r_operand.self,
               Operation(l_operand.val, operator.val.token_type,
                         r_operand.val, -1))))
    ELSE Yield(next_token.self, l_operand.val)))

\* the operator is consumed before "assert isinstance(l_operand, Name)"
Parser_parse_assignment(t) ==
    Then(Parser_parse_or(t), LAMBDA l_operand :
    Attr(Tokenizer_peek_next_token(l_operand.self), LAMBDA next_token :
    IF next_token.val.token_type = "ASSIGN"
    THEN Then(Tokenizer_get_next_token(next_token.self), LAMBDA operator :
         IF l_operand.val.k # "Name"
         THEN Yield(operator.self, Raise("AssertionError"))
         ELSE Then(Parser_parse_assignment(operator.self), LAMBDA r_operand :
              Yield(r_operand.self,
                    Operation(Constant(l_operand.val, -1),
                              operator.val.token_type, r_operand.val, -1))))
    ELSE Yield(next_token.self, l_operand.val)))

\* "expr = self.parse_line(); while expr is not None: ...": the expressions
Parser_lines(t, expressions) ==
    Then(Parser_parse_line(t), LAMBDA expr :
    IF expr.val = None
    THEN Yield(expr.self, [k |-> "list", items |-> expressions])
    ELSE Parser_lines(expr.self, Append(expressions, expr.val)))

Parser_parse_block(t) ==
    Attr(Tokenizer_get_next_token(t), LAMBDA next_token :
    IF next_token.val.token_type # "OPEN_BLOCK"
    THEN Yield(next_token.self, Raise("AssertionError"))
    ELSE Then(Parser_lines(next_token.self, <<>>), LAMBDA expressions :
         Attr(Tokenizer_get_next_token(expressions.self), LAMBDA closing :
         IF closing.val.token_type # "CLOSING_BLOCK"
         THEN Yield(closing.self, Raise("AssertionError"))
         ELSE Yield(closing.self, Block(expressions.val.items, -1)))))

\* "right = peek; while right is of one of the types: get; right = peek"
Parser_skip(t, types) ==
    Attr(Tokenizer_peek_next_token(t), LAMBDA right :
    IF right.val.token_type \in types
    THEN Parser_skip(Tokenizer_get_next_token(right.self).self, types)
    ELSE right)

\* TokenType has no member ELIF and none ELSE
Parser_parse_conditional(t, has_cond) ==
    Then(Tokenizer_get_next_token(t), LAMBDA got :
    Then(IF has_cond THEN Parser_parse_line(got.self)
         ELSE Yield(got.self, Constant(BoolV(TRUE), -1)), LAMBDA condition :
    Then(Parser_parse_block(condition.self), LAMBDA block :
    Then(Parser_skip(block.self, {"EOL", "CLOSING_BLOCK"}), LAMBDA right :
    LET branches == <<<<condition.val, block.val>>>>
    IN  IF ~has_cond THEN Yield(right.self, IfBlock(branches, -1))
        ELSE IF ~hasattr("ELIF") THEN Yield(right.self, AttributeError)
        ELSE IF right.val.token_type = "ELIF"
        THEN Then(Parser_parse_conditional(right.self, TRUE), LAMBDA elif :
             Yield(elif.self, IfBlock(branches \o elif.val.steps, -1)))
        ELSE IF ~hasattr("ELSE") THEN Yield(right.self, AttributeError)
        ELSE IF right.val.token_type = "ELSE"
        THEN Then(Parser_parse_conditional(right.self, FALSE), LAMBDA else :
             Yield(else.self, IfBlock(branches \o else.val.steps, -1)))
        ELSE Yield(right.self, IfBlock(branches, -1))))))

Parser_parse_while_loop(t) ==
    Then(Tokenizer_get_next_token(t), LAMBDA got :
    Then(Parser_parse_line(got.self), LAMBDA condition :
    Then(Parser_parse_block(condition.self), LAMBDA block :
    Yield(block.self, WhileLoop(condition.val, block.val, -1)))))

Parser_parse_for_loop(t) ==
    Then(Tokenizer_get_next_token(t), LAMBDA got :
    Attr(Tokenizer_get_next_token(got.self), LAMBDA next_token :
    IF next_token.val.token_type # "OPEN_BLOCK"
    THEN Yield(next_token.self, Raise("AssertionError"))
    ELSE Then(Parser_lines(next_token.self, <<>>), LAMBDA cond_exprs :
         IF Len(cond_exprs.val.items) # 3
         THEN Yield(cond_exprs.self, Raise("AssertionError"))
         ELSE Then(Tokenizer_get_next_token(cond_exprs.self), LAMBDA closing :
              Then(Parser_parse_block(closing.self), LAMBDA block :
              Yield(block.self,
                    ForLoop(cond_exprs.val.items[1], cond_exprs.val.items[2],
                            cond_exprs.val.items[3], block.val, -1)))))))

\* "while self.tokenizer.peek_next_token().token_type != OPEN_BLOCK": the
\* parameters
Parser_params(t, params) ==
    Attr(Tokenizer_peek_next_token(t), LAMBDA next_token :
    IF next_token.val.token_type = "OPEN_BLOCK"
    THEN Yield(next_token.self, [k |-> "list", items |-> params])
    ELSE Then(Tokenizer_get_next_token(next_token.self), LAMBDA name :
         IF name.val.token_type # "NAME"
         THEN Yield(name.self, Raise("AssertionError"))
         ELSE Parser_params(name.self, Append(params, name.val.payload.s))))

Parser_parse_function_declaration(t) ==
    Then(Tokenizer_get_next_token(t), LAMBDA got :
    Then(Parser_params(got.self, <<>>), LAMBDA params :
    Then(Parser_parse_block(params.self), LAMBDA block :
    Yield(block.self,
          Constant(Function(params.val.items, block.val, -1), -1)))))

\* TokenType has no member IF and none FUNC_DECL
Parser_parse_line(t) ==
    Then(Parser_skip(t, {"EOL"}), LAMBDA right :
    IF ~hasattr("IF") THEN Yield(right.self, AttributeError)
    ELSE IF right.val.token_type = "IF"
    THEN Parser_parse_conditional(right.self, TRUE)
    ELSE IF right.val.token_type = "WHILE_LOOP"
    THEN Parser_parse_while_loop(right.self)
    ELSE IF right.val.token_type = "FOR_LOOP"
    THEN Parser_parse_for_loop(right.self)
    ELSE IF ~hasattr("FUNC_DECL") THEN Yield(right.self, AttributeError)
    ELSE IF right.val.token_type = "FUNC_DECL"
    THEN Parser_parse_function_declaration(right.self)
    ELSE IF right.val.token_type
                \notin {"EOF", "EOL", "CLOSING_BLOCK", "CLOSING_PAR"}
    THEN Parser_parse_assignment(right.self)
    ELSE Yield(right.self, None))

----------------------------------------------------------------------------
(* The lexer specification: get_next_token and peek_next_token are called  *)
(* on a Tokenizer, in any order; each get_next_token is also called on a   *)
(* second Tokenizer for the same script, which is never peeked.            *)

\* the scripts have up to MaxLen characters
MaxLen == 3

\* a digit, a lowercase letter, uppercase letters (A is an operator, IF a
\* keyword), a space, a character that starts no token, a bracket
Chars == {"5", "b", "A", "I", "F", " ", "$", "["}

\* and the scripts of up to MaxOperators single uppercase letters, a space
\* after each: one letter over and over, or two in turn.  R and Z have no
\* TokenType at shift 0
MaxOperators == 18
Turns == {<<"A">>, <<"Q">>, <<"R">>, <<"R", "A">>, <<"Z", "Q">>}
Rotation(turn, n) ==
    [i \in 1..(2 * n) |->
        IF i % 2 = 1 THEN turn[(((i - 1) \div 2) % Len(turn)) + 1] ELSE " "]

\* and the keywords, alone and after an operator
Keywords ==
    {<<"I", "F">>, <<"E", "L", "I", "F">>, <<"E", "L", "S", "E">>,
     <<"F", "O", "R">>, <<"W", "H", "I", "L", "E">>, <<"F", "U", "N">>}

Scripts ==
    UNION {[1..n -> Chars] : n \in 0..MaxLen}
    \cup {Rotation(turn, n) : turn \in Turns, n \in 1..MaxOperators}
    \cup Keywords \cup {<<"A", " ">> \o keyword : keyword \in Keywords}

InitLex ==
    /\ \E script \in Scripts :
          /\ tok = Tokenizer(script)
          /\ ref = Tokenizer(script)
    /\ last = [op |-> "Tokenizer"]
    /\ heap = <<>>
    /\ stack = <<>>
    /\ ret = NoReturn
    /\ log = <<>>
    /\ stdout = <<>>

\* the calls go on until one is made past the end of the script
InScript == tok.index <= Len(tok.script)

\* tok.peek_next_token()
Peek ==
    /\ InScript
    /\ tok' = Tokenizer_peek_next_token(tok).self
    /\ last' = [op |-> "peek", result |-> Tokenizer_peek_next_token(tok).val]
    /\ UNCHANGED <<ref, heap, stack, ret, log, stdout>>

\* tok.get_next_token(), and ref.get_next_token(); log keeps what ref was
\* asked and what it answered
Get ==
    /\ InScript
    /\ tok' = Tokenizer_get_next_token(tok).self
    /\ ref' = Tokenizer_get_next_token(ref).self
    /\ last' = [op |-> "get", result |-> Tokenizer_get_next_token(tok).val,
                unpeeked |-> Tokenizer_get_next_token(ref).val]
    /\ log' = Append(log, [index |-> ref.index,
                           val |-> Tokenizer_get_next_token(ref).val])
    /\ UNCHANGED <<heap, stack, ret, stdout>>

NextLex == Peek \/ Get

SpecLex == InitLex /\ [][NextLex]_vars

----------------------------------------------------------------------------
(* Claims about the lexer *)

\* C10: consecutive peek_next_token calls return the same token, the next
\* get_next_token returns that token too, and get_next_token delivers the
\* same tokens, and leaves the same shift, as on a Tokenizer that is never
\* peeked, at every position of every script.
C10_PeekIdempotent ==
    [][/\ last.op = "peek" /\ last'.op \in {"peek", "get"} =>
             last'.result = last.result
       /\ last'.op = "get" =>
             /\ last'.result = last'.unpeeked
             /\ tok'.shift = ref'.shift]_vars

\* the letter, when the call e of the log scanned a run of one uppercase
\* letter and returned a token for it, and "" for every other call
Single(script, e) ==
    LET start == Scan(script, e.index + 1, isspace)
    IN  IF /\ e.val.k = "Token"
           /\ start < Len(script)
           /\ script[start + 1] \in isupper
           /\ start + 1 < Len(script) => script[start + 2] \notin isupper
        THEN script[start + 1]
        ELSE ""

\* the number of single-letter uppercase tokens among the calls
Singles(script, calls) ==
    Cardinality({i \in 1..Len(calls) : Single(script, calls[i]) # ""})

\* C12: the k-th single-letter uppercase token scanned (k from 0), of
\* letter L, is of the kind numbered ord(L) - ord("A") + 16 - (k mod 17), and
\* the shift is k mod 17 after k such tokens, whatever else was scanned: it
\* starts at 0, grows by one at each such token, wraps at 17, and no other
\* token changes it.
C12_ShiftRotation ==
    /\ ref.shift = Singles(ref.script, log) % 17
    /\ \A i \in 1..Len(log) :
          Single(ref.script, log[i]) # "" =>
             TokenType_value(log[i].val.token_type)
                = ord(Single(ref.script, log[i])) + 16
                  - (Singles(ref.script, SubSeq(log, 1, i - 1)) % 17)

\* eighteen operators were scanned: the shift has wrapped
C12_Witness ==
    /\ last.op = "get"
    /\ Singles(ref.script, log) = 18
    /\ ref.shift = 1

\* the run of uppercase letters a Tokenizer scans next
Word(t) ==
    LET start == Scan(t.script, t.index + 1, isspace)
    IN  Slice(t.script, start, Scan(t.script, start, isupper))

\* C15: a run of uppercase letters that spells IF, ELIF, ELSE, FOR, WHILE
\* or FUN is returned as a keyword token, and the shift is left as it was.
C15_Keywords ==
    [][last'.op = "get" /\ Word(ref) \in Keywords =>
          /\ last'.unpeeked.k = "Token"
          /\ ~TokenType_is_operator(last'.unpeeked.token_type)
          /\ ref'.shift = ref.shift]_vars

----------------------------------------------------------------------------
(* The parser specification: as run_file does, a Parser is made for a      *)
(* script and parse_line is called on it until it returns None or raises.  *)

\* the operands of the lines are 0..MaxOperand
MaxOperand == 2

RECURSIVE str(_)
RECURSIVE Spell(_, _)

\* str(n), as characters
str(n) ==
    IF n < 10 THEN <<Digit[n + 1]>>
    ELSE str(n \div 10) \o <<Digit[(n % 10) + 1]>>

\* the letter that spells an operator after shift operators
Letter(operator, shift) ==
    Upper[TokenType_value(operator) - ROTATING_TOKEN_OFFSET + shift + 1]

\* the script that spells the words, one space between two words: a
\* word is an integer, the name of an operator, or a string of characters
Spell(words, shift) ==
    IF words = <<>> THEN <<>>
    ELSE LET word == Head(words)
             more == IF Len(words) > 1 THEN <<" ">> ELSE <<>>
         IN  IF word.k = "int"
             THEN str(word.n) \o more \o Spell(Tail(words), shift)
             ELSE IF word.s \in Range(TokenType)
             THEN <<Letter(word.s, shift)>> \o more
                  \o Spell(Tail(words), shift + 1)
             ELSE <<word.s>> \o more \o Spell(Tail(words), shift)

Operands == 0..MaxOperand
BinaryOperators ==
    {"ADD", "SUBTRACT", "MULTIPLY", "DIVIDE", "MOD", "EQUAL", "LESS_THAN",
     "AND", "OR"}

\* a op1 b op2 c, )a op1 b( op2 c, a op1 )b op2 c(
Shapes == {"a.b.c", "(a.b).c", "a.(b.c)"}
Line(in) ==
    LET a == IntV(in.a)
        b == IntV(in.b)
        c == IntV(in.c)
        op1 == StrV(in.op1)
        op2 == StrV(in.op2)
    IN  CASE in.shape = "a.b.c" -> Spell(<<a, op1, b, op2, c>>, 0)
          [] in.shape = "(a.b).c" ->
                Spell(<<StrV(")"), a, op1, b, StrV("("), op2, c>>, 0)
          [] in.shape = "a.(b.c)" ->
                Spell(<<a, op1, StrV(")"), b, op2, c, StrV("(")>>, 0)
Lines ==
    [shape : Shapes, a : Operands, b : Operands, c : Operands,
     op1 : BinaryOperators, op2 : BinaryOperators]

\* a script of the lexer specification, or a line
ParseInputs == [shape : {"script"}, script : Scripts] \cup Lines
Script(in) == IF in.shape = "script" THEN in.script ELSE Line(in)

InitParse ==
    /\ \E in \in ParseInputs :
          /\ tok = Parser(Script(in))
          /\ ref = Tokenizer(Script(in))
          /\ last = [op |-> "Parser", in |-> in]
    /\ heap = <<>>
    /\ stack = <<>>
    /\ ret = NoReturn
    /\ log = <<>>
    /\ stdout = <<>>

\* expr = parser.parse_line(), in the loop of run_file: the loop ends when
\* expr is None, and an exception ends the program
ParseLine ==
    /\ \/ last.op = "Parser"
       \/ last.op = "parse_line" /\ last.result.k \notin {"NoneType", "Raise"}
    /\ tok' = Parser_parse_line(tok).self
    /\ last' = [op |-> "parse_line", in |-> last.in,
                result |-> Parser_parse_line(tok).val]
    /\ UNCHANGED <<ref, heap, stack, ret, log, stdout>>

NextParse == ParseLine

SpecParse == InitParse /\ [][NextParse]_vars

----------------------------------------------------------------------------
(* Claims about the parser *)

\* the token parse_line looks at, after the separators it skips
Lookahead(t) == Parser_skip(t, {"EOL"}).val

Expressions ==
    {"Constant", "Name", "Operation", "Block", "IfBlock", "WhileLoop",
     "ForLoop", "Function", "Invocation"}

\* C11: parse_line returns None exactly when, after the separators it
\* skips, the token it looks at is the end of the input, a closing block
\* bracket or a closing parenthesis, and then that token is not consumed;
\* at every other token it returns an expression.
C11_ParseLineNone ==
    [][last'.op = "parse_line" /\ Lookahead(tok).k = "Token" =>
          IF Lookahead(tok).token_type
                \in {"EOF", "CLOSING_BLOCK", "CLOSING_PAR"}
          THEN /\ last'.result = None
               /\ tok'.next_token = Lookahead(tok)
          ELSE last'.result.k \in Expressions]_vars

\* the value of a tree of Operations on Constants: Operation.evaluate
\* applies the operator to the values of the operands
RECURSIVE ValueOf(_)
ValueOf(e) ==
    IF e.k = "Constant" THEN e.value
    ELSE Operators_call(e.operator,
                        <<ValueOf(e.l_operand), ValueOf(e.r_operand)>>,
                        0, <<>>).val

\* C13: a multiplication binds tighter than an addition and a group in
\* parentheses binds tightest: for all integers a, b and c the line
\* a + b * c parses into a tree of the value a + (b * c), the line
\* (a + b) * c into one of the value (a + b) * c, and the line
\* a * (b + c) into one of the value a * (b + c).
C13_Precedence ==
    /\ last.op = "parse_line"
    /\ last.in.shape \in Shapes
    /\ <<last.in.shape, last.in.op1, last.in.op2>>
          \in {<<"a.b.c", "ADD", "MULTIPLY">>,
               <<"(a.b).c", "ADD", "MULTIPLY">>,
               <<"a.(b.c)", "MULTIPLY", "ADD">>}
    => /\ last.result.k = "Operation"
       /\ ValueOf(last.result)
             = IntV(CASE last.in.shape = "a.b.c" ->
                           last.in.a + (last.in.b * last.in.c)
                      [] last.in.shape = "(a.b).c" ->
                           (last.in.a + last.in.b) * last.in.c
                      [] last.in.shape = "a.(b.c)" ->
                           last.in.a * (last.in.b + last.in.c))

\* the operators of one precedence level
Levels ==
    {{"ADD", "SUBTRACT"}, {"MULTIPLY", "DIVIDE", "MOD"},
     {"EQUAL", "LESS_THAN"}, {"AND"}, {"OR"}}

\* C14: a chain of operators of one precedence level parses into a tree
\* that leans to the right: for all operands a, b and c and all operators
\* op1 and op2 of one level, the line a op1 b op2 c parses as
\* Operation(a, op1, Operation(b, op2, c)).
C14_RightLeaning ==
    /\ last.op = "parse_line"
    /\ last.in.shape = "a.b.c"
    /\ \E level \in Levels : last.in.op1 \in level /\ last.in.op2 \in level
    => last.result
          = Operation(Constant(IntV(last.in.a), -1), last.in.op1,
                      Operation(Constant(IntV(last.in.b), -1), last.in.op2,
                                Constant(IntV(last.in.c), -1), -1), -1)

----------------------------------------------------------------------------
(* The methods of the parser below parse_line, called on their own: the
   parser has read the operators before the term, which turn the cipher *)

UnitaryOperators == {"RETURN", "NOT", "TO_INT", "TO_FLOAT", "TO_BOOL"}

\* the operator is spelled by a letter after shift operators
Spelled(operator, shift) ==
    TokenType_value(operator) - ROTATING_TOKEN_OFFSET + shift + 1 \in 1..Len(Upper)

\* shift operators ADD, then the term "op a"
Terms ==
    {in \in [shape : {"term"}, shift : 0..(ROTATING_TOKEN_COUNT - 1),
             op : UnitaryOperators, a : Operands] : Spelled(in.op, in.shift)}
Term(in) ==
    Spell([i \in 1..in.shift |-> StrV("ADD")] \o <<StrV(in.op), IntV(in.a)>>, 0)

\* "IF a [ b ] ]", with the condition a or without, and with a separator
\* before the last bracket or without: a conditional that is the last
\* statement of an enclosing block
Conditionals ==
    [shape : {"conditional"}, has_cond : BOOLEAN, a : Operands, b : Operands,
     eol : BOOLEAN]
Conditional(in) ==
    <<"I", "F", " ">>
    \o (IF in.has_cond THEN str(in.a) \o <<" ">> ELSE <<>>)
    \o <<"[", " ">> \o str(in.b) \o <<" ", "]", " ">>
    \o (IF in.eol THEN <<"|", " ">> ELSE <<>>)
    \o <<"]">>

MethodInputs == Terms \cup Conditionals
MethodScript(in) == IF in.shape = "term" THEN Term(in) ELSE Conditional(in)

InitMethod ==
    /\ \E in \in MethodInputs :
          /\ tok = Parser(MethodScript(in))
          /\ ref = Tokenizer(MethodScript(in))
          /\ last = [op |-> "Parser", in |-> in]
    /\ heap = <<>>
    /\ stack = <<>>
    /\ ret = NoReturn
    /\ log = <<>>
    /\ stdout = <<>>

\* self.tokenizer.get_next_token(), of an operator before the term
Advance ==
    /\ last.op \in {"Parser", "get_next_token"}
    /\ last.in.shape = "term"
    /\ tok.shift < last.in.shift
    /\ tok' = Tokenizer_get_next_token(tok).self
    /\ last' = [op |-> "get_next_token", in |-> last.in]
    /\ UNCHANGED <<ref, heap, stack, ret, log, stdout>>

\* parser.parse_term(), at the term
ParseTerm ==
    /\ last.op \in {"Parser", "get_next_token"}
    /\ last.in.shape = "term"
    /\ tok.shift = last.in.shift
    /\ tok' = Parser_parse_term(tok).self
    /\ last' = [op |-> "parse_term", in |-> last.in,
                left |-> Tokenizer_peek_next_token(tok).val,
                result |-> Parser_parse_term(tok).val]
    /\ UNCHANGED <<ref, heap, stack, ret, log, stdout>>

\* parser.parse_conditional(has_cond), at the keyword
ParseConditional ==
    /\ last.op = "Parser"
    /\ last.in.shape = "conditional"
    /\ tok' = Parser_parse_conditional(tok, last.in.has_cond).self
    /\ last' = [op |-> "parse_conditional", in |-> last.in,
                result |-> Parser_parse_conditional(tok, last.in.has_cond).val]
    /\ UNCHANGED <<ref, heap, stack, ret, log, stdout>>

NextMethod == Advance \/ ParseTerm \/ ParseConditional

SpecMethod == InitMethod /\ [][NextMethod]_vars

\* C22: when the token at the start of a term is RETURN, NOT, TO_INT,
\* TO_FLOAT or TO_BOOL, is_operator holds of it, the parser consumes it and
\* builds an Operation of that operator with no left operand and a right
\* operand only.
C22_UnitaryOperator ==
    last.op = "parse_term" /\ last.in.shape = "term" =>
       /\ last.left = Token(last.in.op, None)
       /\ TokenType_is_operator(last.left.token_type)
       /\ last.result
             = Operation(None, last.in.op, Constant(IntV(last.in.a), -1), -1)

\* C29: parse_conditional consumes the tokens of the conditional only:
\* when an IF statement is the last statement of an enclosing block, the
\* closing bracket of that block is not consumed when parse_conditional
\* returns, and the parse_block of the enclosing block finds it.
C29_ConditionalConsumes ==
    last.op = "parse_conditional" =>
       /\ last.result.k = "IfBlock"
       /\ Tokenizer_peek_next_token(tok).val = Token("CLOSING_BLOCK", None)

----------------------------------------------------------------------------
(* Claims about the operators that the lexer produces *)

\* C23: OPERATORS has an entry for every operator the lexer can produce,
\* the conversions among them: an Operation of TO_INT, TO_FLOAT or TO_BOOL
\* on an integer returns the converted value and not the Error of an
\* invalid operator.
C23_Conversions ==
    last.op = "evaluate" /\ last.in.prog = "conversion" /\ Done =>
          /\ \A name \in Range(TokenType) :
                TokenType_is_operator(name) => name \in DOMAIN OPERATORS
          /\ ~IsError(ret)
          /\ last.in.op = "TO_INT" => ret = IntV(last.in.a)
          /\ last.in.op = "TO_FLOAT" => ret = FloatV(last.in.a, 1)
          /\ last.in.op = "TO_BOOL" => ret = BoolV(last.in.a # 0)

\* C24: every token the lexer produces from a single uppercase letter is
\* an operator: at every letter and every shift the kind decoded is a
\* member of TokenType of a value of 16 or more; the decoding never gives a
\* control, bracket, literal or keyword kind and never fails.
C24_LettersAreOperators ==
    [][last'.op = "get" /\ Len(Word(ref)) = 1 =>
          /\ last'.unpeeked.k = "Token"
          /\ TokenType_is_operator(last'.unpeeked.token_type)]_vars

\* the script with a space after every operator or keyword that another
\* character, not a space, follows directly; name tells that the script
\* follows the letters of a name, which a name goes on with
RECURSIVE Separate(_, _)
Separate(script, name) ==
    IF script = <<>> THEN <<>>
    ELSE LET c == script[1]
             named == c \in isalpha /\ (name \/ c \notin isupper)
         IN  IF /\ c \in isupper
                /\ ~named
                /\ Len(script) >= 2
                /\ script[2] \notin isupper
                /\ script[2] \notin isspace
             THEN <<c, " ">> \o Separate(Tail(script), FALSE)
             ELSE <<c>> \o Separate(Tail(script), named)

Separated(script) == Separate(script, FALSE)

\* what the get_next_token calls return, up to the end of the input or to
\* an exception
RECURSIVE Stream(_)
Stream(t) ==
    IF Tokenizer_get_next_token(t).val \in {Token("EOF", None)}
       \/ Tokenizer_get_next_token(t).val.k = "Raise"
    THEN <<Tokenizer_get_next_token(t).val>>
    ELSE <<Tokenizer_get_next_token(t).val>>
         \o Stream(Tokenizer_get_next_token(t).self)

\* C28: the lexer drops no character that is not whitespace: the tokens do
\* not depend on whether whitespace separates an uppercase operator or
\* keyword from the token after it ("5A6" gives the tokens of "5 A 6",
\* "IF[" those of "IF [").
C28_NothingDropped ==
    \A i \in 1..Len(log) :
       i <= Len(Stream(Tokenizer(Separated(ref.script)))) =>
          log[i].val = Stream(Tokenizer(Separated(ref.script)))[i]

----------------------------------------------------------------------------
(* The scanning specification: the caller goes on calling get_next_token,   *)
(* as the loops of the parser do, past the end of the script, and may look  *)
(* ahead before any call.  An exception is returned to the caller, who goes *)
(* on.                                                                      *)

\* the calls go on until MaxPast of them were made past the end
MaxPast == 2

\* a digit, a lowercase letter, an operator, a letter that has no TokenType
\* at shift 0, a space, a quote, a character that starts no token
ScanChars == {"5", "b", "A", "R", " ", "\"", "$"}

InitScan ==
    /\ \E script \in UNION {[1..n -> ScanChars] : n \in 0..MaxLen} :
          /\ tok = Tokenizer(script)
          /\ ref = Tokenizer(script)
    /\ last = [op |-> "Tokenizer"]
    /\ heap = <<>>
    /\ stack = <<>>
    /\ ret = NoReturn
    /\ log = <<>>
    /\ stdout = <<>>

Scanning == tok.index < Len(tok.script) + MaxPast

\* tok.peek_next_token(); index is the cursor before the call
ScanPeek ==
    /\ Scanning
    /\ tok' = Tokenizer_peek_next_token(tok).self
    /\ last' = [op |-> "peek", index |-> tok.index,
                result |-> Tokenizer_peek_next_token(tok).val]
    /\ UNCHANGED <<ref, heap, stack, ret, log, stdout>>

\* tok.get_next_token()
ScanGet ==
    /\ Scanning
    /\ tok' = Tokenizer_get_next_token(tok).self
    /\ last' = [op |-> "get", index |-> tok.index,
                result |-> Tokenizer_get_next_token(tok).val]
    /\ UNCHANGED <<ref, heap, stack, ret, log, stdout>>

NextScan == ScanPeek \/ ScanGet

\* the caller does call get_next_token again
SpecScan == InitScan /\ [][NextScan]_vars /\ WF_vars(ScanGet)

====
